---- MODULE Spec2Model ----
(***************************************************************************)
(* SUPRSS: the PostgreSQL schema (tables, foreign keys, uniqueness         *)
(* constraints, column defaults, the owner-membership trigger, the         *)
(* article/status view) and the frontend's AuthService (localStorage       *)
(* session, token refresh and retry).                                      *)
(***************************************************************************)
EXTENDS Integers, FiniteSets, Sequences, TLC

VARIABLES
    db,          \* the database: table name -> set of rows
    removedFrom, \* the tables the last statement removed rows from
    lastStmt,    \* the statement a logged session ran last, and its outcome
    localStorage, \* the browser's localStorage: key -> string
    href,        \* window.location.href
    call,        \* the AuthService call in flight and where it awaits
    request,     \* the last request handed to fetch
    response,    \* the last response fetch resolved with
    outcome,     \* the last finished call and what its caller got
    mounted,     \* whether AppProvider is mounted
    collections, \* AppProvider's `collections` state
    activeCollection, \* AppProvider's `activeCollection` state
    now,         \* the clock Date.now() reads
    unmounted,   \* `collections` as it was when AppProvider was last unmounted
    events,      \* user events handled so far
    opml,        \* ImportOPMLForm: the feeds exported, the file, the feeds parsed
    loginView,   \* LoginView's state and whether its fetch is pending
    appContent   \* AppContent's state

dbVars == <<db, removedFrom, lastStmt>>
authVars == <<localStorage, href, call, request, response, outcome>>
appVars == <<mounted, collections, activeCollection, now, unmounted, events>>
uiVars == <<opml, loginView, appContent>>
vars == <<db, removedFrom, lastStmt, localStorage, href, call, request, response,
          outcome, mounted, collections, activeCollection, now, unmounted, events,
          opml, loginView, appContent>>

-----------------------------------------------------------------------------
(* Bounds of the model *)

MaxRows == 7                 \* rows in the whole database
UserIds == {1, 2}
CollectionIds == {1, 2}
FluxIds == {1}
ArticleIds == {1}
CategorieIds == {1}
CommentaireIds == {1, 2}
FilIds == {1, 2, 3}          \* comment ids of the thread session
MessageIds == {1}
JournalIds == {1}
OAuthProviders == {"google"}
MaxRetries == 2              \* times one call re-sends its request
AccessTokens == {"jwt1", "jwt2"}
RefreshTokens == {"rt1", "rt2"}
UserObjects == {"alice", "bob"}
Emails == {"alice@suprss.local"}
Passwords == {"secret"}
OAuthCodes == {"code1"}
ApiUrls == {"/api/users/me/stats"}
MaxEvents == 3               \* user events in one behaviour of the React app
InviteEmails == {"bob@suprss.local"}
MaxFeeds == 2                \* feeds in one export

-----------------------------------------------------------------------------
(* The schema *)

NULL == 0

Tables ==
    {"utilisateur", "utilisateur_oauth", "collection", "flux_rss", "categorie",
     "article", "membre_collection", "collection_flux", "flux_categorie",
     "statut_utilisateur_article", "commentaire_article", "message_collection",
     "journal_export", "journal_import"}

role_membre == {"proprietaire", "administrateur", "moderateur", "membre"}

FK(child, col, parent, nullable) ==
    [child |-> child, col |-> col, parent |-> parent, nullable |-> nullable,
     on_delete |-> "CASCADE"]

\* Every FOREIGN KEY of the script; all are declared ON DELETE CASCADE.
ForeignKeys ==
    { FK("utilisateur_oauth", "utilisateur_id", "utilisateur", FALSE),
      FK("collection", "proprietaire_id", "utilisateur", FALSE),
      FK("categorie", "utilisateur_id", "utilisateur", FALSE),
      FK("article", "flux_id", "flux_rss", FALSE),
      FK("membre_collection", "collection_id", "collection", FALSE),
      FK("membre_collection", "utilisateur_id", "utilisateur", FALSE),
      FK("collection_flux", "collection_id", "collection", FALSE),
      FK("collection_flux", "flux_id", "flux_rss", FALSE),
      FK("collection_flux", "ajoute_par_utilisateur_id", "utilisateur", FALSE),
      FK("flux_categorie", "flux_id", "flux_rss", FALSE),
      FK("flux_categorie", "categorie_id", "categorie", FALSE),
      FK("statut_utilisateur_article", "utilisateur_id", "utilisateur", FALSE),
      FK("statut_utilisateur_article", "article_id", "article", FALSE),
      FK("commentaire_article", "article_id", "article", FALSE),
      FK("commentaire_article", "utilisateur_id", "utilisateur", FALSE),
      FK("commentaire_article", "collection_id", "collection", FALSE),
      FK("commentaire_article", "commentaire_parent_id", "commentaire_article", TRUE),
      FK("message_collection", "collection_id", "collection", FALSE),
      FK("message_collection", "utilisateur_id", "utilisateur", FALSE),
      FK("journal_export", "utilisateur_id", "utilisateur", FALSE),
      FK("journal_import", "utilisateur_id", "utilisateur", FALSE) }

UQ(table, cols) == [table |-> table, cols |-> cols]

\* PRIMARY KEY constraints (id SERIAL PRIMARY KEY) of the tables whose id is
\* modelled.
PrimaryKeys ==
    { UQ("utilisateur", {"id"}),
      UQ("collection", {"id"}),
      UQ("flux_rss", {"id"}),
      UQ("categorie", {"id"}),
      UQ("article", {"id"}),
      UQ("commentaire_article", {"id"}),
      UQ("message_collection", {"id"}),
      UQ("journal_export", {"id"}),
      UQ("journal_import", {"id"}) }

unique_membre_collection ==
    UQ("membre_collection", {"collection_id", "utilisateur_id"})

\* UNIQUE constraints over the modelled columns, unique_membre_collection apart.
OtherUniqueKeys ==
    { UQ("utilisateur_oauth", {"utilisateur_id", "provider"}),
      UQ("collection_flux", {"collection_id", "flux_id"}),
      UQ("flux_categorie", {"flux_id", "categorie_id"}),
      UQ("statut_utilisateur_article", {"utilisateur_id", "article_id"}) }

\* Mutant: membre_collection declared without unique_membre_collection.
UniqueConstraintsSansMembre == PrimaryKeys \cup OtherUniqueKeys

UniqueConstraints ==
    PrimaryKeys \cup OtherUniqueKeys \cup {unique_membre_collection}

\* Mutant: peut_modifier BOOLEAN DEFAULT TRUE.
membre_collection_defaults_modifier ==
    [role |-> "membre", peut_ajouter_flux |-> TRUE, peut_lire |-> TRUE,
     peut_commenter |-> TRUE, peut_modifier |-> TRUE, peut_supprimer |-> FALSE]

\* Column DEFAULTs of membre_collection.
membre_collection_defaults ==
    [role |-> "membre", peut_ajouter_flux |-> TRUE, peut_lire |-> TRUE,
     peut_commenter |-> TRUE, peut_modifier |-> FALSE, peut_supprimer |-> FALSE]

\* Column DEFAULTs of the modelled columns.
ColumnDefaults(t) ==
    CASE t = "utilisateur" -> [est_actif |-> TRUE]
      [] t = "flux_rss" -> [est_actif |-> TRUE]
      [] t = "membre_collection" -> membre_collection_defaults
      [] t = "statut_utilisateur_article" ->
            [est_lu |-> FALSE, est_favori |-> FALSE]
      [] t = "commentaire_article" -> [commentaire_parent_id |-> NULL]
      [] OTHER -> [x \in {} |-> NULL]

\* The row an INSERT builds: the given columns, the others from their DEFAULT.
NewRow(t, given) ==
    LET d == ColumnDefaults(t)
    IN [c \in DOMAIN d \cup DOMAIN given |->
           IF c \in DOMAIN given THEN given[c] ELSE d[c]]

EmptyDb == [t \in Tables |-> {}]

Ids(rows) == {r.id : r \in rows}

FKSatisfied(d, t, row) ==
    \A fk \in ForeignKeys :
        fk.child = t =>
            \/ fk.nullable /\ row[fk.col] = NULL
            \/ \E p \in d[fk.parent] : p.id = row[fk.col]
            \/ fk.parent = t /\ row[fk.col] = row.id   \* the row itself

UniqueSatisfied(d, t, row) ==
    \A uq \in UniqueConstraints :
        uq.table = t => ~ \E r \in d[t] : \A c \in uq.cols : r[c] = row[c]

\* INSERT of one row, constraints checked, triggers not yet run.
InsertRow(d, t, given) ==
    LET row == NewRow(t, given)
    IN IF ~ FKSatisfied(d, t, row)
         THEN [db |-> d, sqlstate |-> "foreign_key_violation"]
       ELSE IF ~ UniqueSatisfied(d, t, row)
         THEN [db |-> d, sqlstate |-> "unique_violation"]
       ELSE [db |-> [d EXCEPT ![t] = @ \cup {row}], sqlstate |-> "ok"]

\* Mutant: the trigger function leaves role and rights to the column defaults.
ajouter_proprietaire_droits_par_defaut(d, new) ==
    InsertRow(d, "membre_collection",
        [collection_id |-> new.id, utilisateur_id |-> new.proprietaire_id])

\* The trigger function, run AFTER INSERT ON collection FOR EACH ROW with the new row.
ajouter_proprietaire_comme_membre(d, new) ==
    InsertRow(d, "membre_collection",
        [collection_id |-> new.id, utilisateur_id |-> new.proprietaire_id,
         role |-> "proprietaire", peut_ajouter_flux |-> TRUE, peut_lire |-> TRUE,
         peut_commenter |-> TRUE, peut_modifier |-> TRUE, peut_supprimer |-> TRUE])

\* The INSERT statement: the row, then the table's AFTER INSERT trigger; an
\* error in either aborts the whole statement.
ExecInsert(d, t, given) ==
    LET r == InsertRow(d, t, given)
    IN IF r.sqlstate # "ok" \/ t # "collection" THEN r
       ELSE LET tr == ajouter_proprietaire_comme_membre(r.db, NewRow(t, given))
            IN IF tr.sqlstate = "ok" THEN tr
               ELSE [db |-> d, sqlstate |-> tr.sqlstate]

\* The rows of fk.child that reference a doomed row of fk.parent.
RowsReferencing(d, fk, doomed) ==
    {r \in d[fk.child] : \E p \in doomed[fk.parent] : r[fk.col] = p.id}

\* Mutant: fk_collection_proprietaire without ON DELETE CASCADE.
CascadeStepSansCollection(d, doomed) ==
    [t \in Tables |->
        doomed[t] \cup
        UNION {RowsReferencing(d, fk, doomed) :
                 fk \in {f \in ForeignKeys :
                            f.child = t /\ f.child # "collection"}}]

\* One round of ON DELETE CASCADE: the rows that reference a doomed row.
CascadeStep(d, doomed) ==
    [t \in Tables |->
        doomed[t] \cup
        UNION {RowsReferencing(d, fk, doomed) :
                 fk \in {f \in ForeignKeys :
                            f.child = t /\ f.on_delete = "CASCADE"}}]

RECURSIVE Cascade(_, _)

\* Mutant: the cascade stops at the rows that reference the deleted rows.
CascadeUneFois(d, doomed) == CascadeStep(d, doomed)

\* ON DELETE CASCADE to the end: rounds until no more row is doomed.
Cascade(d, doomed) ==
    LET more == CascadeStep(d, doomed)
    IN IF more = doomed THEN doomed ELSE Cascade(d, more)

\* The DELETE statement: the rows, and through ON DELETE CASCADE every row
\* that references a deleted row.
ExecDelete(d, t, rows) ==
    LET doomed == Cascade(d, [x \in Tables |-> IF x = t THEN rows ELSE {}])
    IN [x \in Tables |-> d[x] \ doomed[x]]

RowCount(d) == Cardinality(d.utilisateur) + Cardinality(d.utilisateur_oauth)
    + Cardinality(d.collection) + Cardinality(d.flux_rss)
    + Cardinality(d.categorie) + Cardinality(d.article)
    + Cardinality(d.membre_collection) + Cardinality(d.collection_flux)
    + Cardinality(d.flux_categorie)
    + Cardinality(d.statut_utilisateur_article)
    + Cardinality(d.commentaire_article) + Cardinality(d.message_collection)
    + Cardinality(d.journal_export) + Cardinality(d.journal_import)

-----------------------------------------------------------------------------------------------------------------------------------------------------
(* Statements on the whole schema.  A statement that violates a constraint  *)
(* is aborted and changes nothing, so only the statements that succeed are  *)
(* steps here; an INSERT is taken while the database stays within MaxRows.  *)

Insert(t, given) ==
    LET r == ExecInsert(db, t, given)
    IN /\ r.sqlstate = "ok"
       /\ RowCount(r.db) <= MaxRows
       /\ db' = r.db
       /\ removedFrom' = {}
       /\ UNCHANGED <<lastStmt, authVars, appVars, uiVars>>

Delete(t, row) ==
    /\ row \in db[t]
    /\ db' = ExecDelete(db, t, {row})
    /\ removedFrom' = {x \in Tables : db'[x] # db[x]}
    /\ UNCHANGED <<lastStmt, authVars, appVars, uiVars>>

\* UPDATE t SET cols = ... WHERE the row is `row`; no modelled UPDATE touches a
\* key or a referencing column, so no constraint is involved.
ExecUpdate(d, t, row, set) ==
    [d EXCEPT ![t] = (@ \ {row}) \cup
        {[c \in DOMAIN row |-> IF c \in DOMAIN set THEN set[c] ELSE row[c]]}]

Update(t, row, set) ==
    /\ row \in db[t]
    /\ db' = ExecUpdate(db, t, row, set)
    /\ removedFrom' = {}
    /\ UNCHANGED <<lastStmt, authVars, appVars, uiVars>>

InsertUtilisateur == \E id \in UserIds : Insert("utilisateur", [id |-> id])

InsertUtilisateurOAuth ==
    \E u \in UserIds, p \in OAuthProviders :
        Insert("utilisateur_oauth", [utilisateur_id |-> u, provider |-> p])

InsertCollection ==
    \E id \in CollectionIds, u \in UserIds :
        Insert("collection", [id |-> id, proprietaire_id |-> u])

InsertFluxRss == \E id \in FluxIds : Insert("flux_rss", [id |-> id])

InsertCategorie ==
    \E id \in CategorieIds, u \in UserIds :
        Insert("categorie", [id |-> id, utilisateur_id |-> u])

InsertArticle ==
    \E id \in ArticleIds, f \in FluxIds :
        Insert("article", [id |-> id, flux_id |-> f])

\* INSERT INTO membre_collection (collection_id, utilisateur_id): role and
\* flags left to their defaults.
MembreDefautValues(c, u) == [collection_id |-> c, utilisateur_id |-> u]

\* INSERT INTO membre_collection with an explicit role and explicit rights.
MembreExpliciteValues(c, u) ==
    [collection_id |-> c, utilisateur_id |-> u, role |-> "administrateur",
     peut_modifier |-> TRUE, peut_supprimer |-> TRUE]

InsertMembreDefaut ==
    \E c \in CollectionIds, u \in UserIds :
        Insert("membre_collection", MembreDefautValues(c, u))

InsertMembreExplicite ==
    \E c \in CollectionIds, u \in UserIds :
        Insert("membre_collection", MembreExpliciteValues(c, u))

InsertCollectionFlux ==
    \E c \in CollectionIds, f \in FluxIds, u \in UserIds :
        Insert("collection_flux",
            [collection_id |-> c, flux_id |-> f, ajoute_par_utilisateur_id |-> u])

InsertFluxCategorie ==
    \E f \in FluxIds, c \in CategorieIds :
        Insert("flux_categorie", [flux_id |-> f, categorie_id |-> c])

InsertStatut ==
    \E u \in UserIds, a \in ArticleIds :
        Insert("statut_utilisateur_article", [utilisateur_id |-> u, article_id |-> a])

\* UPDATE statut_utilisateur_article SET est_lu = .., est_favori = ..
\* WHERE utilisateur_id = u AND article_id = a
UpdateStatut ==
    \E r \in db.statut_utilisateur_article, lu \in BOOLEAN, favori \in BOOLEAN :
        /\ <<lu, favori>> # <<r.est_lu, r.est_favori>>
        /\ Update("statut_utilisateur_article", r,
                  [est_lu |-> lu, est_favori |-> favori])

InsertCommentaire ==
    \E id \in CommentaireIds, a \in ArticleIds, u \in UserIds,
       c \in CollectionIds, p \in CommentaireIds \cup {NULL} :
        Insert("commentaire_article",
            [id |-> id, article_id |-> a, utilisateur_id |-> u,
             collection_id |-> c, commentaire_parent_id |-> p])

InsertMessage ==
    \E id \in MessageIds, c \in CollectionIds, u \in UserIds :
        Insert("message_collection",
            [id |-> id, collection_id |-> c, utilisateur_id |-> u])

InsertJournalExport ==
    \E id \in JournalIds, u \in UserIds :
        Insert("journal_export", [id |-> id, utilisateur_id |-> u])

InsertJournalImport ==
    \E id \in JournalIds, u \in UserIds :
        Insert("journal_import", [id |-> id, utilisateur_id |-> u])

DeleteUtilisateur == \E r \in db.utilisateur : Delete("utilisateur", r)
DeleteUtilisateurOAuth == \E r \in db.utilisateur_oauth : Delete("utilisateur_oauth", r)
DeleteCollection == \E r \in db.collection : Delete("collection", r)
DeleteFluxRss == \E r \in db.flux_rss : Delete("flux_rss", r)
DeleteCategorie == \E r \in db.categorie : Delete("categorie", r)
DeleteArticle == \E r \in db.article : Delete("article", r)
DeleteMembre == \E r \in db.membre_collection : Delete("membre_collection", r)
DeleteCollectionFlux == \E r \in db.collection_flux : Delete("collection_flux", r)
DeleteFluxCategorie == \E r \in db.flux_categorie : Delete("flux_categorie", r)
DeleteStatut ==
    \E r \in db.statut_utilisateur_article : Delete("statut_utilisateur_article", r)
DeleteCommentaire == \E r \in db.commentaire_article : Delete("commentaire_article", r)
DeleteMessage == \E r \in db.message_collection : Delete("message_collection", r)
DeleteJournalExport == \E r \in db.journal_export : Delete("journal_export", r)
DeleteJournalImport == \E r \in db.journal_import : Delete("journal_import", r)

\* The view: article JOIN flux_rss LEFT JOIN statut_utilisateur_article ON
\* a.id = s.article_id, est_lu and est_favori through COALESCE(.., FALSE).
vue_articles_utilisateur(d) ==
    LET joined == {<<a, f>> \in d.article \X d.flux_rss : a.flux_id = f.id}
        statuts(a) == {s \in d.statut_utilisateur_article : s.article_id = a.id}
    IN  {[id |-> j[1].id, flux_id |-> j[2].id, est_lu |-> s.est_lu,
          est_favori |-> s.est_favori, utilisateur_id |-> s.utilisateur_id] :
            <<j, s>> \in {<<j, s>> \in joined \X d.statut_utilisateur_article :
                             s \in statuts(j[1])}}
        \cup
        {[id |-> j[1].id, flux_id |-> j[2].id, est_lu |-> FALSE,
          est_favori |-> FALSE, utilisateur_id |-> NULL] :
            j \in {j \in joined : statuts(j[1]) = {}}}

-----------------------------------------------------------------------------
(* A logged session on utilisateur, collection and membre_collection: every *)
(* statement is a step, an aborted one too, and lastStmt holds it with its  *)
(* outcome.                                                                 *)

NoStmt ==
    [op |-> "NONE", table |-> "", given |-> [x \in {} |-> NULL], sqlstate |-> "ok",
     removed |-> EmptyDb]

LoggedInsert(t, given) ==
    LET r == ExecInsert(db, t, given)
    IN /\ db' = r.db
       /\ removedFrom' = {}
       /\ lastStmt' = [op |-> "INSERT", table |-> t, given |-> given,
                       sqlstate |-> r.sqlstate, removed |-> EmptyDb]
       /\ UNCHANGED <<authVars, appVars, uiVars>>

LoggedDelete(t, row) ==
    /\ row \in db[t]
    /\ db' = ExecDelete(db, t, {row})
    /\ removedFrom' = {x \in Tables : db'[x] # db[x]}
    /\ lastStmt' = [op |-> "DELETE", table |-> t, given |-> row,
                    sqlstate |-> "ok",
                    removed |-> [x \in Tables |-> db[x] \ db'[x]]]
    /\ UNCHANGED <<authVars, appVars, uiVars>>

SessionInsertUtilisateur ==
    \E id \in UserIds : LoggedInsert("utilisateur", [id |-> id])

SessionInsertCollection ==
    \E id \in CollectionIds, u \in UserIds :
        LoggedInsert("collection", [id |-> id, proprietaire_id |-> u])

SessionInsertMembreDefaut ==
    \E c \in CollectionIds, u \in UserIds :
        LoggedInsert("membre_collection", MembreDefautValues(c, u))

SessionInsertMembreExplicite ==
    \E c \in CollectionIds, u \in UserIds :
        LoggedInsert("membre_collection", MembreExpliciteValues(c, u))

SessionDeleteUtilisateur ==
    \E r \in db.utilisateur : LoggedDelete("utilisateur", r)

SessionDeleteCollection ==
    \E r \in db.collection : LoggedDelete("collection", r)

SessionDeleteMembre ==
    \E r \in db.membre_collection : LoggedDelete("membre_collection", r)

\* UPDATE of one row, the foreign keys of the new row checked; no modelled
\* UPDATE touches a column of a key.
UpdateRow(d, t, row, set) ==
    LET new == [c \in DOMAIN row |-> IF c \in DOMAIN set THEN set[c] ELSE row[c]]
    IN IF ~ FKSatisfied(d, t, new)
         THEN [db |-> d, sqlstate |-> "foreign_key_violation"]
       ELSE [db |-> ExecUpdate(d, t, row, set), sqlstate |-> "ok"]

LoggedUpdate(t, row, set) ==
    LET r == UpdateRow(db, t, row, set)
    IN /\ row \in db[t]
       /\ db' = r.db
       /\ removedFrom' = {}
       /\ lastStmt' = [op |-> "UPDATE", table |-> t, given |-> set,
                       sqlstate |-> r.sqlstate, removed |-> EmptyDb]
       /\ UNCHANGED <<authVars, appVars, uiVars>>

\* UPDATE collection SET proprietaire_id = u WHERE id = ..
SessionUpdateProprietaire ==
    \E r \in db.collection, u \in UserIds :
        /\ u # r.proprietaire_id
        /\ LoggedUpdate("collection", r, [proprietaire_id |-> u])

\* The values of role_membre a session sets.
SessionRoles == {"proprietaire", "membre"}

\* UPDATE membre_collection SET role = .. WHERE collection_id = .. AND utilisateur_id = ..
SessionUpdateMembreRole ==
    \E r \in db.membre_collection, role \in SessionRoles :
        /\ role # r.role
        /\ LoggedUpdate("membre_collection", r, [role |-> role])

\* INSERT INTO membre_collection (collection_id, utilisateur_id, role)
\* VALUES (c, u, 'proprietaire')
SessionInsertMembreProprietaire ==
    \E c \in CollectionIds, u \in UserIds :
        LoggedInsert("membre_collection",
            [collection_id |-> c, utilisateur_id |-> u, role |-> "proprietaire"])

-----------------------------------------------------------------------------
(* A logged session on one article's comment threads: one utilisateur, one  *)
(* flux_rss, one article, one collection, and comments that answer each     *)
(* other.                                                                   *)

FilInsertUtilisateur ==
    \E id \in {1} : LoggedInsert("utilisateur", [id |-> id])

FilInsertFluxRss ==
    \E id \in {1} : LoggedInsert("flux_rss", [id |-> id])

FilInsertArticle ==
    \E id \in {1}, f \in {1} : LoggedInsert("article", [id |-> id, flux_id |-> f])

FilInsertCollection ==
    \E id \in {1}, u \in {1} :
        LoggedInsert("collection", [id |-> id, proprietaire_id |-> u])

FilInsertCommentaire ==
    \E id \in FilIds, p \in FilIds \cup {NULL} :
        LoggedInsert("commentaire_article",
            [id |-> id, article_id |-> 1, utilisateur_id |-> 1,
             collection_id |-> 1, commentaire_parent_id |-> p])

FilDeleteCommentaire ==
    \E r \in db.commentaire_article : LoggedDelete("commentaire_article", r)

FilDeleteArticle == \E r \in db.article : LoggedDelete("article", r)

FilDeleteUtilisateur == \E r \in db.utilisateur : LoggedDelete("utilisateur", r)

-----------------------------------------------------------------------------
(* AuthService (frontend/src/services/authService.js).  One call is in      *)
(* flight at a time; it awaits at each fetch, where logout(), which is      *)
(* synchronous, can run in between.                                         *)

NoItem == "<null>"           \* what getItem gives for a key that is not stored
Absent == "<undefined>"      \* a field the response body does not have
NoHeader == << >>

Truthy(v) == v \notin {NoItem, Absent, ""}

getItem(ls, k) == IF k \in DOMAIN ls THEN ls[k] ELSE NoItem
setItem(ls, k, v) == [x \in DOMAIN ls \cup {k} |-> IF x = k THEN v ELSE ls[x]]
removeItem(ls, k) == [x \in DOMAIN ls \ {k} |-> ls[x]]

JSONstringify(o) ==
    CASE o = "alice" -> "{\"nom_utilisateur\":\"alice\"}"
      [] o = "bob" -> "{\"nom_utilisateur\":\"bob\"}"

JSONparse(text) ==
    IF \E o \in UserObjects : JSONstringify(o) = text
      THEN CHOOSE o \in UserObjects : JSONstringify(o) = text
      ELSE "SyntaxError"

Bearer(token) == <<"Bearer", token>>

saveTokens(ls, data) ==
    LET ls1 == IF Truthy(data.access_token)
                 THEN setItem(ls, "token", data.access_token) ELSE ls
        ls2 == IF Truthy(data.refresh_token)
                 THEN setItem(ls1, "refresh_token", data.refresh_token) ELSE ls1
    IN IF Truthy(data.user)
         THEN setItem(ls2, "user", JSONstringify(data.user)) ELSE ls2

\* Mutant: logout that leaves the refresh token in place.
logoutSansRefreshToken(ls) == removeItem(removeItem(ls, "token"), "user")

\* logout(): what it leaves in localStorage (it also sets location.href).
logout(ls) == removeItem(removeItem(removeItem(ls, "token"), "refresh_token"), "user")

getToken(ls) == getItem(ls, "token")
isAuthenticated(ls) == Truthy(getToken(ls))

getStoredUser(ls) ==
    IF Truthy(getItem(ls, "user")) THEN JSONparse(getItem(ls, "user")) ELSE NoItem

getAuthHeaders(ls) ==
    IF Truthy(getToken(ls)) THEN {<<"Authorization", Bearer(getToken(ls))>>} ELSE {}

IsOk(status) == status >= 200 /\ status <= 299

NoData == [access_token |-> Absent, refresh_token |-> Absent, user |-> Absent,
           detail |-> Absent]

\* The bodies the server's token endpoints answer with.  An ok answer of
\* /api/users/login and /api/users/oauth2/login carries access_token,
\* refresh_token and user (LoginView reads all three); an ok answer of
\* /api/users/refresh-token carries the new access_token and may carry the
\* other two; an error answer may carry a detail.
LoginBodies ==
    {[access_token |-> a, refresh_token |-> r, user |-> u, detail |-> Absent] :
        a \in AccessTokens, r \in RefreshTokens, u \in UserObjects}

RefreshBodies ==
    {[access_token |-> a, refresh_token |-> r, user |-> u, detail |-> Absent] :
        a \in AccessTokens, r \in RefreshTokens \cup {Absent},
        u \in {"alice", Absent}}

ErrorBodies ==
    {[NoData EXCEPT !.detail = d] : d \in {Absent, "Identifiants invalides"}}

Idle == [fn |-> "none", pc |-> "idle", token |-> NoItem, url |-> "", attempt |-> 0]
NoRequest == [url |-> "", authorization |-> NoHeader, body |-> << >>]
NoResponse == [status |-> 0, data |-> NoData]
NoOutcome == [fn |-> "none", kind |-> "none", value |-> "", status |-> 0,
              attempt |-> 0]

Returned(fn, value, status, attempt) ==
    [fn |-> fn, kind |-> "returned", value |-> value, status |-> status,
     attempt |-> attempt]
Threw(fn, message) ==
    [fn |-> fn, kind |-> "threw", value |-> message, status |-> 0, attempt |-> 0]

\* The call starts: it hands `req` to fetch and awaits the response.
Await(fn, pc, token, url, attempt, req) ==
    /\ call' = [fn |-> fn, pc |-> pc, token |-> token, url |-> url,
                attempt |-> attempt]
    /\ request' = req

\* The call ends: its caller gets `out`.
Finish(out) ==
    /\ call' = Idle
    /\ outcome' = out

\* --- login(email, password)

Login ==
    \E email \in Emails, password \in Passwords :
        /\ call = Idle
        /\ Await("login", "fetch", NoItem, "/api/users/login", 1,
                 [url |-> "/api/users/login", authorization |-> NoHeader,
                  body |-> <<"username", email, "password", password>>])
        /\ response' = NoResponse
        /\ UNCHANGED <<localStorage, href, outcome, dbVars, appVars, uiVars>>

\* Mutant: a refused login clears the stored session before it throws.
LoginDoneClearsOnError(fn, fallback, resp) ==
    /\ response' = resp
    /\ IF ~ IsOk(resp.status)
         THEN /\ Finish(Threw(fn, IF Truthy(resp.data.detail)
                                    THEN resp.data.detail ELSE fallback))
              /\ localStorage' = logout(localStorage)
         ELSE /\ localStorage' = saveTokens(localStorage, resp.data)
              /\ Finish(Returned(fn, "data", resp.status, 1))
    /\ UNCHANGED <<href, request>>

\* login and loginWithOAuth from `if (!response.ok)` on.
LoginDone(fn, fallback, resp) ==
    /\ response' = resp
    /\ IF ~ IsOk(resp.status)
         THEN /\ Finish(Threw(fn, IF Truthy(resp.data.detail)
                                    THEN resp.data.detail ELSE fallback))
              /\ UNCHANGED localStorage
         ELSE /\ localStorage' = saveTokens(localStorage, resp.data)
              /\ Finish(Returned(fn, "data", resp.status, 1))
    /\ UNCHANGED <<href, request>>

TokenResponses ==
    {[status |-> 200, data |-> d] : d \in LoginBodies}
    \cup {[status |-> 401, data |-> d] : d \in ErrorBodies}

LoginResponse ==
    /\ call.fn = "login" /\ call.pc = "fetch"
    /\ \E resp \in TokenResponses : LoginDone("login", "Erreur de connexion", resp)
    /\ UNCHANGED <<dbVars, appVars, uiVars>>

\* --- loginWithOAuth(provider, code, redirectUri)

LoginWithOAuth ==
    \E provider \in OAuthProviders, code \in OAuthCodes :
        /\ call = Idle
        /\ Await("loginWithOAuth", "fetch", NoItem, "/api/users/oauth2/login", 1,
                 [url |-> "/api/users/oauth2/login", authorization |-> NoHeader,
                  body |-> <<"provider", provider, "token", code,
                             "redirect_uri", "/auth/callback">>])
        /\ response' = NoResponse
        /\ UNCHANGED <<localStorage, href, outcome, dbVars, appVars, uiVars>>

LoginWithOAuthResponse ==
    /\ call.fn = "loginWithOAuth" /\ call.pc = "fetch"
    /\ \E resp \in TokenResponses :
          LoginDone("loginWithOAuth", "Erreur de connexion OAuth", resp)
    /\ UNCHANGED <<dbVars, appVars, uiVars>>

\* --- logout()

Logout ==
    /\ localStorage' = logout(localStorage)
    /\ href' = "/login"
    /\ outcome' = Returned("logout", "undefined", 0, 0)
    /\ UNCHANGED <<call, request, response, dbVars, appVars, uiVars>>

\* --- refreshToken()

RefreshRequest(ls) ==
    [url |-> "/api/users/refresh-token", authorization |-> NoHeader,
     body |-> <<"refresh_token", getItem(ls, "refresh_token")>>]

RefreshResponses ==
    {[status |-> 200, data |-> d] : d \in RefreshBodies}
    \cup {[status |-> 401, data |-> NoData]}

\* Mutant: refreshToken that throws without logging out.
refreshTokenDoneSansLogout(ls, resp) ==
    IF ~ IsOk(resp.status)
      THEN [ls |-> ls, threw |-> "Session expirée", loggedOut |-> FALSE]
      ELSE [ls |-> saveTokens(ls, resp.data), threw |-> "", loggedOut |-> FALSE]

\* refreshToken from `if (!response.ok)` on: the storage it leaves, what it
\* throws ("" when it returns) and whether it ran logout().
refreshTokenDone(ls, resp) ==
    IF ~ IsOk(resp.status)
      THEN [ls |-> logout(ls), threw |-> "Session expirée", loggedOut |-> TRUE]
      ELSE [ls |-> saveTokens(ls, resp.data), threw |-> "", loggedOut |-> FALSE]

RefreshToken ==
    /\ call = Idle
    /\ response' = NoResponse
    /\ UNCHANGED <<localStorage, href, dbVars, appVars, uiVars>>
    /\ IF ~ Truthy(getItem(localStorage, "refresh_token"))
         THEN /\ Finish(Threw("refreshToken", "Pas de refresh token"))
              /\ UNCHANGED request
         ELSE /\ Await("refreshToken", "refresh", NoItem, "", 1,
                       RefreshRequest(localStorage))
              /\ UNCHANGED outcome

RefreshTokenResponse ==
    /\ UNCHANGED <<dbVars, appVars, uiVars>>
    /\ call.fn = "refreshToken" /\ call.pc = "refresh"
    /\ \E resp \in RefreshResponses :
          LET r == refreshTokenDone(localStorage, resp)
          IN /\ response' = resp
             /\ localStorage' = r.ls
             /\ href' = IF r.loggedOut THEN "/login" ELSE href
             /\ Finish(IF r.threw # "" THEN Threw("refreshToken", r.threw)
                       ELSE Returned("refreshToken", "data", resp.status, 1))
             /\ UNCHANGED request

\* --- apiRequest(url, options)

ApiStatuses == {200, 401, 500}

\* Mutant: a re-sent request carries the token the first attempt read.
ApiRequestSendAncienToken(ls, url, attempt) ==
    LET token == IF attempt > 1 THEN call.token ELSE getToken(ls)
    IN Await("apiRequest", "fetch", token, url, attempt,
             [url |-> url,
              authorization |-> IF Truthy(token) THEN Bearer(token) ELSE NoHeader,
              body |-> << >>])

\* apiRequest up to its fetch: the token read now goes into the header.
ApiRequestSend(ls, url, attempt) ==
    Await("apiRequest", "fetch", getToken(ls), url, attempt,
          [url |-> url,
           authorization |-> IF Truthy(getToken(ls)) THEN Bearer(getToken(ls))
                             ELSE NoHeader,
           body |-> << >>])

ApiRequest ==
    \E url \in ApiUrls :
        /\ call = Idle
        /\ ApiRequestSend(localStorage, url, 1)
        /\ response' = NoResponse
        /\ UNCHANGED <<localStorage, href, outcome, dbVars, appVars, uiVars>>

\* The response of the request: on 401 with a token, refreshToken() is called,
\* which throws at once without a refresh token (the catch then logs out).
\* `counted`: the call counts how often it sends its request, and sends it
\* again MaxRetries times at most; the code itself keeps no such count.
ApiRequestAnswered(counted) ==
    /\ UNCHANGED <<dbVars, appVars, uiVars>>
    /\ call.fn = "apiRequest" /\ call.pc = "fetch"
    /\ \E status \in ApiStatuses :
          /\ (counted /\ status = 401 /\ Truthy(call.token))
                => call.attempt <= MaxRetries
          /\ response' = [status |-> status, data |-> NoData]
          /\ IF status = 401 /\ Truthy(call.token)
               THEN IF ~ Truthy(getItem(localStorage, "refresh_token"))
                      THEN /\ localStorage' = logout(localStorage)
                           /\ href' = "/login"
                           /\ Finish(Threw("apiRequest", "Pas de refresh token"))
                           /\ UNCHANGED request
                      ELSE /\ Await("apiRequest", "refresh", call.token, call.url,
                                    call.attempt, RefreshRequest(localStorage))
                           /\ UNCHANGED <<localStorage, href, outcome>>
               ELSE /\ Finish(Returned("apiRequest", "response", status,
                                       call.attempt))
                    /\ UNCHANGED <<localStorage, href, request>>

ApiRequestResponse == ApiRequestAnswered(TRUE)

\* The same without the count: a call may send its request again and again.
ApiRequestResponseSansCompte == ApiRequestAnswered(FALSE)

\* The response of the refresh: on success the request is sent again by a
\* fresh apiRequest(url, options); on failure the catch logs out and rethrows.
ApiRequestRefreshedThen(counted) ==
    /\ UNCHANGED <<dbVars, appVars, uiVars>>
    /\ call.fn = "apiRequest" /\ call.pc = "refresh"
    /\ \E resp \in RefreshResponses :
          LET r == refreshTokenDone(localStorage, resp)
          IN /\ response' = resp
             /\ IF r.threw # ""
                  THEN /\ localStorage' = logout(r.ls)
                       /\ href' = "/login"
                       /\ Finish(Threw("apiRequest", r.threw))
                       /\ UNCHANGED request
                  ELSE /\ localStorage' = r.ls
                       /\ ApiRequestSend(r.ls, call.url,
                              IF counted THEN call.attempt + 1 ELSE call.attempt)
                       /\ UNCHANGED <<href, outcome>>

ApiRequestRefreshed == ApiRequestRefreshedThen(TRUE)

ApiRequestRefreshedSansCompte == ApiRequestRefreshedThen(FALSE)

\* --- getCurrentUser()

GetCurrentUserSend(ls, attempt) ==
    IF ~ Truthy(getToken(ls))
      THEN /\ Finish(Threw("getCurrentUser", "Non authentifié"))
           /\ UNCHANGED request
      ELSE /\ Await("getCurrentUser", "fetch", getToken(ls), "/api/users/me",
                    attempt,
                    [url |-> "/api/users/me",
                     authorization |-> Bearer(getToken(ls)), body |-> << >>])
           /\ UNCHANGED outcome

GetCurrentUser ==
    /\ call = Idle
    /\ response' = NoResponse
    /\ GetCurrentUserSend(localStorage, 1)
    /\ UNCHANGED <<localStorage, href, dbVars, appVars, uiVars>>

GetCurrentUserAnswered(counted) ==
    /\ UNCHANGED <<dbVars, appVars, uiVars>>
    /\ call.fn = "getCurrentUser" /\ call.pc = "fetch"
    /\ \E status \in ApiStatuses :
          /\ (counted /\ status = 401) => call.attempt <= MaxRetries
          /\ response' = [status |-> status, data |-> NoData]
          /\ UNCHANGED <<localStorage, href>>
          /\ IF IsOk(status)
               THEN /\ Finish(Returned("getCurrentUser", "data", status,
                                       call.attempt))
                    /\ UNCHANGED request
             ELSE IF status = 401
               THEN IF ~ Truthy(getItem(localStorage, "refresh_token"))
                      THEN /\ Finish(Threw("getCurrentUser", "Pas de refresh token"))
                           /\ UNCHANGED request
                      ELSE /\ Await("getCurrentUser", "refresh", call.token,
                                    call.url, call.attempt,
                                    RefreshRequest(localStorage))
                           /\ UNCHANGED outcome
             ELSE /\ Finish(Threw("getCurrentUser",
                        "Erreur lors de la récupération du profil"))
                  /\ UNCHANGED request

GetCurrentUserResponse == GetCurrentUserAnswered(TRUE)

GetCurrentUserResponseSansCompte == GetCurrentUserAnswered(FALSE)

GetCurrentUserRefreshedThen(counted) ==
    /\ UNCHANGED <<dbVars, appVars, uiVars>>
    /\ call.fn = "getCurrentUser" /\ call.pc = "refresh"
    /\ \E resp \in RefreshResponses :
          LET r == refreshTokenDone(localStorage, resp)
          IN /\ response' = resp
             /\ localStorage' = r.ls
             /\ href' = IF r.loggedOut THEN "/login" ELSE href
             /\ IF r.threw # ""
                  THEN /\ Finish(Threw("getCurrentUser", r.threw))
                       /\ UNCHANGED request
                  ELSE GetCurrentUserSend(r.ls,
                           IF counted THEN call.attempt + 1 ELSE call.attempt)

GetCurrentUserRefreshed == GetCurrentUserRefreshedThen(TRUE)

GetCurrentUserRefreshedSansCompte == GetCurrentUserRefreshedThen(FALSE)

InitAuth ==
    /\ localStorage = [k \in {} |-> ""]
    /\ href = "/"
    /\ call = Idle
    /\ request = NoRequest
    /\ response = NoResponse
    /\ outcome = NoOutcome

-----------------------------------------------------------------------------
(* AppProvider (src/contexts/AppContext.jsx) and the components that call   *)
(* it.  An event handler, the render it causes and the effects of that      *)
(* render are one step.                                                     *)

AllPermissions == <<"read", "add", "edit", "comment">>

Vous ==
    [id |-> 1, name |-> "Vous", role |-> "creator", permissions |-> AllPermissions]

\* initialCollections of utils/constants.js (the fields no handler reads or
\* writes, emoji, description and the like, are carried along unchanged and
\* left out here).
initialCollections ==
    << [id |-> 1, name |-> "Actualités Tech",
        feeds |-> << [id |-> 1, active |-> TRUE], [id |-> 2, active |-> TRUE],
                     [id |-> 3, active |-> FALSE] >>,
        members |-> << Vous,
                       [id |-> 2, name |-> "Jean Dupont", role |-> "member",
                        permissions |-> <<"read", "add", "comment">>],
                       [id |-> 3, name |-> "Sophie Martin", role |-> "reader",
                        permissions |-> <<"read">>] >>,
        activeFeeds |-> 5, activeMembers |-> 3],
       [id |-> 2, name |-> "Sciences", feeds |-> << >>, members |-> <<Vous>>,
        activeFeeds |-> 2, activeMembers |-> 1],
       [id |-> 3, name |-> "Business", feeds |-> << >>, members |-> <<Vous>>,
        activeFeeds |-> 3, activeMembers |-> 1] >>

Map(f(_), seq) == [i \in DOMAIN seq |-> f(seq[i])]
Filter(seq, keep(_)) == SelectSeq(seq, keep)

\* JSON.stringify / JSON.parse of the collections: the state holds strings,
\* numbers, booleans, arrays and plain objects only, which the text spells
\* out in full; any other text does not parse.
JSONstringifyCollections(cols) == [json |-> "array", items |-> cols]
JSONparseCollections(text) ==
    IF text.json = "array" THEN [ok |-> TRUE, value |-> text.items]
    ELSE [ok |-> FALSE, value |-> << >>]

SaveCollections(ls, cols) ==
    setItem(ls, "suprss_collections", JSONstringifyCollections(cols))

\* The load effect: the state update it asks for, if any.
LoadCollections(ls, current) ==
    IF "suprss_collections" \in DOMAIN ls
         /\ JSONparseCollections(ls["suprss_collections"]).ok
      THEN JSONparseCollections(ls["suprss_collections"]).value
      ELSE current

\* Mutant: the save effect declared before the load effect.
MountEffectsSaveFirst(ls) ==
    LET saved == SaveCollections(ls, initialCollections)
        loaded == LoadCollections(saved, initialCollections)
    IN [collections |-> loaded, localStorage |-> SaveCollections(saved, loaded)]

\* Mounting AppProvider: the first render has initialCollections; its effects
\* run in the order they are declared, load then save; the state the load
\* effect set is rendered next, and the save effect runs again for it.
MountEffects(ls) ==
    LET loaded == LoadCollections(ls, initialCollections)
        saved == SaveCollections(ls, initialCollections)
    IN [collections |-> loaded, localStorage |-> SaveCollections(saved, loaded)]

Mount ==
    /\ ~ mounted
    /\ mounted' = TRUE
    /\ collections' = MountEffects(localStorage).collections
    /\ localStorage' = MountEffects(localStorage).localStorage
    /\ activeCollection' = initialCollections[1]
    /\ UNCHANGED <<now, unmounted, events, href, call, request, response, outcome,
                   dbVars, uiVars>>

NotUnmounted == [mounted |-> FALSE, collections |-> << >>]

Unmount ==
    /\ mounted
    /\ mounted' = FALSE
    /\ unmounted' = [mounted |-> TRUE, collections |-> collections]
    /\ collections' = << >>
    /\ activeCollection' = initialCollections[1]
    /\ UNCHANGED <<localStorage, now, events, href, call, request, response,
                   outcome, dbVars, uiVars>>

\* A user event whose handler ends with setCollections(cols): the render and
\* the save effect follow.
SetCollections(cols) ==
    /\ collections' = cols
    /\ localStorage' = SaveCollections(localStorage, cols)

Event ==
    /\ mounted
    /\ events < MaxEvents
    /\ events' = events + 1
    /\ UNCHANGED <<mounted, unmounted, href, call, request, response, outcome,
                   dbVars, uiVars>>

\* Date.now(): the clock may have moved on since it was last read.
DateNow == {now, now + 1}

addCollection(cols, collection, t) ==
    Append(cols, [id |-> t, name |-> collection.name, feeds |-> << >>,
                  members |-> <<Vous>>, activeFeeds |-> 0, activeMembers |-> 1])

updateCollection(cols, collectionId, updates) ==
    LET update(col) ==
            IF col.id = collectionId
              THEN [k \in DOMAIN col |->
                      IF k \in DOMAIN updates THEN updates[k] ELSE col[k]]
              ELSE col
    IN Map(update, cols)

deleteCollection(cols, collectionId) ==
    LET keep(col) == col.id # collectionId IN Filter(cols, keep)

addFeedToCollection(cols, collectionId, feed, t) ==
    LET add(col) ==
            IF col.id = collectionId
              THEN [col EXCEPT !.feeds = Append(@, [id |-> t, active |-> feed.active]),
                               !.activeFeeds = @ + 1]
              ELSE col
    IN Map(add, cols)

addMemberToCollection(cols, collectionId, member, t) ==
    LET add(col) ==
            IF col.id = collectionId
              THEN [col EXCEPT !.members = Append(@,
                                   [id |-> t, name |-> member.name,
                                    role |-> member.role,
                                    permissions |-> member.permissions]),
                               !.activeMembers = @ + 1]
              ELSE col
    IN Map(add, cols)

updateMemberPermissions(cols, collectionId, memberId, permissions) ==
    LET set(member) ==
            IF member.id = memberId
              THEN [member EXCEPT !.permissions = permissions] ELSE member
        update(col) ==
            IF col.id = collectionId
              THEN [col EXCEPT !.members = Map(set, @)] ELSE col
    IN Map(update, cols)

Includes(seq, x) == \E i \in DOMAIN seq : seq[i] = x
Find(seq, test(_)) ==
    IF \E i \in DOMAIN seq : test(seq[i])
      THEN {seq[CHOOSE i \in DOMAIN seq :
                  test(seq[i]) /\ \A j \in 1..(i - 1) : ~ test(seq[j])]}
      ELSE {}

\* addCollection(collection), called with the name typed for the collection.
AddCollection ==
    \E t \in DateNow :
        /\ Event
        /\ now' = t
        /\ SetCollections(addCollection(collections, [name |-> "Nouvelle"], t))
        /\ UNCHANGED activeCollection

\* deleteCollection(collectionId): `collections` in its body is the list of
\* the render the handler belongs to, the one before the delete.
DeleteCollectionLocale ==
    \E i \in DOMAIN collections :
        /\ Event
        /\ SetCollections(deleteCollection(collections, collections[i].id))
        /\ activeCollection' =
              IF activeCollection.id = collections[i].id
                THEN collections[1] ELSE activeCollection
        /\ UNCHANGED now

\* setActiveCollection(collection), as a list of the collections calls it.
SelectCollection ==
    \E i \in DOMAIN collections :
        /\ Event
        /\ activeCollection' = collections[i]
        /\ UNCHANGED <<collections, localStorage, now>>

\* CollectionForm.handleSubmit
CollectionFormSubmit ==
    /\ Event
    /\ SetCollections(updateCollection(collections, activeCollection.id,
                                       [name |-> "Renommée"]))
    /\ UNCHANGED <<activeCollection, now>>

\* FeedsList.handleAddFeed
HandleAddFeed ==
    \E t \in DateNow :
        /\ Event
            /\ now' = t
        /\ SetCollections(addFeedToCollection(collections, activeCollection.id,
                                              [active |-> TRUE], t))
        /\ UNCHANGED activeCollection

\* FeedsList.handleToggleFeedStatus
HandleToggleFeedStatus ==
    \E i \in DOMAIN activeCollection.feeds :
        LET toggle(feed) ==
                IF feed.id = activeCollection.feeds[i].id
                  THEN [feed EXCEPT !.active = ~ @] ELSE feed
            isActive(feed) == feed.active
            updatedFeeds == Map(toggle, activeCollection.feeds)
        IN /\ Event
           /\ SetCollections(updateCollection(collections, activeCollection.id,
                  [feeds |-> updatedFeeds,
                   activeFeeds |-> Len(Filter(updatedFeeds, isActive))]))
           /\ UNCHANGED <<activeCollection, now>>

InviteRoles == {"reader", "contributor", "moderator"}

NewMember(inviteEmail, inviteRole) ==
    [name |-> "bob", email |-> inviteEmail, role |-> inviteRole,
     permissions |-> IF inviteRole = "reader" THEN <<"read">>
                     ELSE IF inviteRole = "contributor"
                       THEN <<"read", "add", "comment">>
                     ELSE <<"read", "add", "edit", "comment">>]

\* MembersList.handleInvite
HandleInvite ==
    \E inviteEmail \in InviteEmails, inviteRole \in InviteRoles, t \in DateNow :
        /\ Event
            /\ now' = t
        /\ SetCollections(addMemberToCollection(collections, activeCollection.id,
                              NewMember(inviteEmail, inviteRole), t))
        /\ UNCHANGED activeCollection

\* Mutant: handlePermissionChange without the test on the role.
PermissionChangeSansGarde(cols, collection, memberId, permission, checked) ==
    LET isMember(m) == m.id = memberId
        other(p) == p # permission
    IN IF Find(collection.members, isMember) = {} THEN cols
       ELSE LET member == CHOOSE m \in Find(collection.members, isMember) : TRUE
            IN updateMemberPermissions(cols, collection.id, memberId,
                  IF checked THEN Append(member.permissions, permission)
                  ELSE Filter(member.permissions, other))

\* MembersList.handlePermissionChange on the collection it was given: the
\* collections it asks AppProvider to set (the same when it does nothing).
PermissionChange(cols, collection, memberId, permission, checked) ==
    LET isMember(m) == m.id = memberId
        other(p) == p # permission
    IN IF Find(collection.members, isMember) = {} THEN cols
       ELSE LET member == CHOOSE m \in Find(collection.members, isMember) : TRUE
            IN IF member.role = "creator" THEN cols
               ELSE updateMemberPermissions(cols, collection.id, memberId,
                      IF checked THEN Append(member.permissions, permission)
                      ELSE Filter(member.permissions, other))

HandlePermissionChange ==
    \E i \in DOMAIN activeCollection.members, p \in DOMAIN AllPermissions,
       checked \in BOOLEAN :
        LET cols == PermissionChange(collections, activeCollection,
                        activeCollection.members[i].id, AllPermissions[p], checked)
        IN /\ Event
           /\ IF cols = collections
                THEN UNCHANGED <<collections, localStorage>>
                ELSE SetCollections(cols)
           /\ UNCHANGED <<activeCollection, now>>

-----------------------------------------------------------------------------
(* ImportOPMLForm (components/Forms/ImportOPMLForm.jsx).  A string is the   *)
(* sequence of its characters.                                              *)

Str_Tech == <<"T", "e", "c", "h">>
Str_News == <<"N", "e", "w", "s">>
Str_RandD == <<"R", "&", "D">>
Str_Quoted == <<"a", "\"", "b">>
Str_AmpEntity == <<"a", "&", "a", "m", "p", ";">>
Str_Url == <<"h", "/", "r", "s", "s">>
Str_UrlQuery == <<"h", "/", "r", "?", "a", "&", "b">>
Str_NonCategorise == <<"N", "o", "n">>     \* 'Non catégorisé'

FeedTitles == {Str_Tech, Str_RandD, Str_Quoted, Str_AmpEntity}
FeedUrls == {Str_Url, Str_UrlQuery}
FeedCategories == {Str_Tech, Str_News}

ExportedFeeds ==
    [title : FeedTitles, url : FeedUrls, category : FeedCategories]

FeedLists ==
    UNION {[1..n -> ExportedFeeds] : n \in 0..MaxFeeds}

\* The categories of the feeds in the order generateOPML meets them (the
\* insertion order of the keys of `categories`).
RECURSIVE CategoriesInOrder(_)
CategoriesInOrder(feeds) ==
    IF feeds = << >> THEN << >>
    ELSE LET before == CategoriesInOrder(SubSeq(feeds, 1, Len(feeds) - 1))
             category == feeds[Len(feeds)].category
         IN IF Includes(before, category) THEN before ELSE Append(before, category)

\* generateOPML with includeCategories on: the <body> it writes, one
\* <outline text="..."> per category around the <outline ... /> of its feeds.
\* Each attribute holds the characters put between its quotes, as they are.
generateOPML(data) ==
    LET block(category) ==
            LET ofCategory(feed) == feed.category = category
                outline(feed) ==
                    [text |-> feed.title, title |-> feed.title,
                     xmlUrl |-> feed.url, htmlUrl |-> << >>]
            IN [text |-> category,
                outlines |-> Map(outline, Filter(data.feeds, ofCategory))]
    IN Map(block, CategoriesInOrder(data.feeds))

\* The predefined entities of XML.
XmlEntity(name) ==
    CASE name = <<"a", "m", "p">> -> <<"&">>
      [] name = <<"l", "t">> -> <<"<">>
      [] name = <<"g", "t">> -> <<">">>
      [] name = <<"q", "u", "o", "t">> -> <<"\"">>
      [] name = <<"a", "p", "o", "s">> -> <<"'">>
      [] OTHER -> << >>

IndexOf(chars, c) ==
    IF Includes(chars, c)
      THEN CHOOSE i \in DOMAIN chars :
              chars[i] = c /\ \A j \in 1..(i - 1) : chars[j] # c
      ELSE 0

\* What an XML parser makes of the characters found between the quotes of an
\* attribute: a quote ends the value there, and what follows it is not the
\* start of another attribute; `<` may not occur; `&` must start a reference
\* to a predefined entity, which is replaced by its character.
RECURSIVE XmlAttributeValue(_)
XmlAttributeValue(chars) ==
    IF chars = << >> THEN [ok |-> TRUE, value |-> << >>]
    ELSE IF Head(chars) \in {"\"", "<"} THEN [ok |-> FALSE, value |-> << >>]
    ELSE IF Head(chars) = "&"
      THEN LET semi == IndexOf(Tail(chars), ";")
               name == SubSeq(Tail(chars), 1, semi - 1)
               rest == XmlAttributeValue(SubSeq(Tail(chars), semi + 1,
                                                Len(chars) - 1))
           IN IF semi = 0 \/ XmlEntity(name) = << >> \/ ~ rest.ok
                THEN [ok |-> FALSE, value |-> << >>]
                ELSE [ok |-> TRUE, value |-> XmlEntity(name) \o rest.value]
    ELSE LET rest == XmlAttributeValue(Tail(chars))
         IN IF rest.ok THEN [ok |-> TRUE, value |-> <<Head(chars)>> \o rest.value]
            ELSE rest

\* The feeds parseOPMLFile reads from the outlines of one category block, up
\* to the first attribute that is not well-formed.
RECURSIVE ParseOutlines(_, _)
ParseOutlines(outlines, category) ==
    IF outlines = << >> THEN [ok |-> TRUE, feeds |-> << >>]
    ELSE LET o == Head(outlines)
             text == XmlAttributeValue(o.text)
             title == XmlAttributeValue(o.title)
             xmlUrl == XmlAttributeValue(o.xmlUrl)
             htmlUrl == XmlAttributeValue(o.htmlUrl)
             rest == ParseOutlines(Tail(outlines), category)
         IN IF ~ (text.ok /\ title.ok /\ xmlUrl.ok /\ htmlUrl.ok)
              THEN [ok |-> FALSE, feeds |-> << >>]
              ELSE [ok |-> rest.ok,
                    feeds |-> << [title |-> IF title.value # << >>
                                             THEN title.value ELSE text.value,
                                  url |-> xmlUrl.value,
                                  category |-> IF category # << >> THEN category
                                               ELSE Str_NonCategorise] >>
                              \o rest.feeds]

RECURSIVE ParseBlocks(_)
ParseBlocks(blocks) ==
    IF blocks = << >> THEN [ok |-> TRUE, feeds |-> << >>]
    ELSE LET category == XmlAttributeValue(Head(blocks).text)
             here == ParseOutlines(Head(blocks).outlines, category.value)
             rest == ParseBlocks(Tail(blocks))
         IN IF ~ category.ok THEN [ok |-> FALSE, feeds |-> << >>]
            ELSE IF ~ here.ok THEN here
            ELSE [ok |-> rest.ok, feeds |-> here.feeds \o rest.feeds]

\* parseOPMLFile: the feeds it can end up with.  On text that is not
\* well-formed, DOMParser gives a document holding a <parsererror>, with or
\* without the outlines read before the error, depending on the browser.
parseOPMLFile(text) ==
    LET parsed == ParseBlocks(text)
    IN IF parsed.ok THEN {parsed.feeds} ELSE {<< >>, parsed.feeds}

NoOpml == [phase |-> "idle", feeds |-> << >>, text |-> << >>, parsedFeeds |-> << >>]

\* handleExport: onExport gives the feeds, generateOPML the file.
HandleExport ==
    \E feeds \in FeedLists :
        /\ opml' = [phase |-> "exported", feeds |-> feeds,
                    text |-> generateOPML([feeds |-> feeds]),
                    parsedFeeds |-> << >>]
        /\ UNCHANGED <<dbVars, authVars, appVars, loginView, appContent>>

\* handleFileSelect on the file exported last.
HandleFileSelect ==
    /\ opml.phase = "exported"
    /\ \E feeds \in parseOPMLFile(opml.text) :
          opml' = [opml EXCEPT !.phase = "parsed", !.parsedFeeds = feeds]
    /\ UNCHANGED <<dbVars, authVars, appVars, loginView, appContent>>

-----------------------------------------------------------------------------
(* AppContent (App.jsx), Header.jsx and LoginView.jsx *)

\* String(value), as localStorage.setItem and FormData.append apply it.
String(value) == IF value = Absent THEN "undefined" ELSE value

\* JSON.stringify(value): undefined for undefined.
JSONstringifyOrUndefined(value) ==
    IF value = Absent THEN Absent ELSE JSONstringify(value)

NoAppContent ==
    [mounted |-> FALSE, isLoading |-> TRUE, isAuthenticated |-> FALSE,
     user |-> NoItem]

FormFields ==
    {"email", "password", "confirmPassword", "firstName", "lastName", "username"}

EmptyForm == [f \in FormFields |-> ""]

NoLoginView ==
    [isLoginMode |-> TRUE, formData |-> EmptyForm, errors |-> {}, pc |-> "form",
     oauthLoading |-> NoItem, oauthPc |-> "none"]

\* window.location.search of the URLs the page is loaded with, as
\* URLSearchParams reads it: get(name) is null for a name that is not there.
LocationSearch ==
    [h \in {"/", "/login", "/login?error=oauth_denied", "/login?code=code1",
            "/login?state=google", "/login?code=&state=google",
            "/login?code=code1&state=google",
            "/login?code=code1&state=microsoft",
            "/login?code=code1&state=github",
            "/login?code=code1&state=evil",
            "/login?code=code1&state=constructor"} |->
        CASE h = "/login?code=code1" -> [code |-> "code1", state |-> NoItem]
          [] h = "/login?state=google" -> [code |-> NoItem, state |-> "google"]
          [] h = "/login?code=&state=google" -> [code |-> "", state |-> "google"]
          [] h = "/login?code=code1&state=google" ->
                [code |-> "code1", state |-> "google"]
          [] h = "/login?code=code1&state=microsoft" ->
                [code |-> "code1", state |-> "microsoft"]
          [] h = "/login?code=code1&state=github" ->
                [code |-> "code1", state |-> "github"]
          [] h = "/login?code=code1&state=evil" ->
                [code |-> "code1", state |-> "evil"]
          [] h = "/login?code=code1&state=constructor" ->
                [code |-> "code1", state |-> "constructor"]
          [] OTHER -> [code |-> NoItem, state |-> NoItem]]

\* OAUTH_CONFIG: the redirect URI of each provider (after the origin) and the
\* page its authUrl names.
OAUTH_CONFIG ==
    [google |-> [redirectUri |-> "/auth/callback/google",
                 authUrl |-> "https://accounts.google.com/o/oauth2/v2/auth"],
     microsoft |-> [redirectUri |-> "/auth/callback/microsoft",
                    authUrl |->
                      "https://login.microsoftonline.com/common/oauth2/v2.0/authorize"],
     github |-> [redirectUri |-> "/auth/callback/github",
                 authUrl |-> "https://github.com/login/oauth/authorize"]]

\* Names every object has through Object.prototype: OAUTH_CONFIG[name] is then
\* a function, which has no redirectUri.
ObjectPrototype == {"constructor"}

\* Mutant: handleOAuthLogin without its finally block.
handleOAuthLoginSansFinally(view, provider, code) ==
    IF provider \in DOMAIN OAUTH_CONFIG
      THEN [view |-> [view EXCEPT !.oauthLoading = provider, !.oauthPc = "fetch"],
            sent |-> TRUE,
            request |-> [url |-> "/api/users/oauth2/login",
                         authorization |-> NoHeader,
                         body |-> <<"provider", provider, "token", code,
                                    "redirect_uri",
                                    OAUTH_CONFIG[provider].redirectUri>>]]
    ELSE IF provider \in ObjectPrototype
      THEN [view |-> [view EXCEPT !.oauthLoading = provider, !.oauthPc = "fetch"],
            sent |-> TRUE,
            request |-> [url |-> "/api/users/oauth2/login",
                         authorization |-> NoHeader,
                         body |-> <<"provider", provider, "token", code>>]]
    ELSE [view |-> [view EXCEPT !.errors = {"oauth"}, !.oauthLoading = provider],
          sent |-> FALSE, request |-> NoRequest]

\* handleOAuthLogin(provider, code) up to its fetch: the view it leaves and
\* the request it sends.  OAUTH_CONFIG[provider].redirectUri throws for a name
\* OAUTH_CONFIG does not have (catch, then finally); JSON.stringify leaves
\* out a redirect_uri that is undefined.
handleOAuthLogin(view, provider, code) ==
    IF provider \in DOMAIN OAUTH_CONFIG
      THEN [view |-> [view EXCEPT !.oauthLoading = provider, !.oauthPc = "fetch"],
            sent |-> TRUE,
            request |-> [url |-> "/api/users/oauth2/login",
                         authorization |-> NoHeader,
                         body |-> <<"provider", provider, "token", code,
                                    "redirect_uri",
                                    OAUTH_CONFIG[provider].redirectUri>>]]
    ELSE IF provider \in ObjectPrototype
      THEN [view |-> [view EXCEPT !.oauthLoading = provider, !.oauthPc = "fetch"],
            sent |-> TRUE,
            request |-> [url |-> "/api/users/oauth2/login",
                         authorization |-> NoHeader,
                         body |-> <<"provider", provider, "token", code>>]]
    ELSE [view |-> [view EXCEPT !.errors = {"oauth"}, !.oauthLoading = NoItem],
          sent |-> FALSE, request |-> NoRequest]

\* LoginView's mount effect (handleOAuthCallback) on the URL h.
LoginViewMount(h) ==
    LET urlParams == LocationSearch[h]
    IN IF Truthy(urlParams.code) /\ Truthy(urlParams.state)
         THEN handleOAuthLogin(NoLoginView, urlParams.state, urlParams.code)
         ELSE [view |-> NoLoginView, sent |-> FALSE, request |-> NoRequest]

\* Mutant: any stored user opens the session, parsed or not.
InitialAuthSansParse(ls) ==
    LET storedUser == getItem(ls, "user")
    IN IF Truthy(storedUser)
         THEN [content |-> [mounted |-> TRUE, isLoading |-> FALSE,
                            isAuthenticated |-> TRUE, user |-> storedUser],
               ls |-> ls]
         ELSE [content |-> [NoAppContent EXCEPT !.mounted = TRUE,
                                                !.isLoading = FALSE],
               ls |-> ls]

\* The effect AppContent runs on mount: its state and localStorage after it.
InitialAuth(ls) ==
    LET storedUser == getItem(ls, "user")
    IN IF Truthy(storedUser)
         THEN IF JSONparse(storedUser) # "SyntaxError"
                THEN [content |-> [mounted |-> TRUE, isLoading |-> FALSE,
                                   isAuthenticated |-> TRUE,
                                   user |-> JSONparse(storedUser)],
                      ls |-> ls]
                ELSE [content |-> [NoAppContent EXCEPT !.mounted = TRUE,
                                                       !.isLoading = FALSE],
                      ls |-> removeItem(ls, "user")]
         ELSE [content |-> [NoAppContent EXCEPT !.mounted = TRUE,
                                                !.isLoading = FALSE],
               ls |-> ls]

\* LoginView is rendered for the first time: its mount effect runs.
MountLoginView ==
    LET m == LoginViewMount(href)
    IN /\ loginView' = m.view
       /\ IF m.sent THEN request' = m.request /\ response' = NoResponse
          ELSE UNCHANGED <<request, response>>

\* AppContent mounts: its effect, and LoginView's when the render that
\* follows shows LoginView.
AppContentMount ==
    LET r == InitialAuth(localStorage)
    IN /\ ~ appContent.mounted
       /\ href \in DOMAIN LocationSearch
       /\ appContent' = r.content
       /\ localStorage' = r.ls
       /\ IF r.content.isAuthenticated
            THEN UNCHANGED <<loginView, request, response>>
            ELSE MountLoginView
       /\ UNCHANGED <<opml, href, call, outcome, dbVars, appVars>>

\* The page is loaded again: the components' state is gone.
PageReload ==
    /\ appContent.mounted
    /\ appContent' = NoAppContent
    /\ loginView' = NoLoginView
    /\ UNCHANGED <<opml, dbVars, authVars, appVars>>

\* handleLogin(userData)
handleLogin(content, userData) ==
    [content EXCEPT !.user = userData, !.isAuthenticated = TRUE]

\* Header.handleLogout: onLogout is App's handleLogout.
HeaderHandleLogout ==
    /\ appContent.mounted /\ appContent.isAuthenticated
    /\ localStorage' = removeItem(localStorage, "user")
    /\ appContent' = [appContent EXCEPT !.user = NoItem, !.isAuthenticated = FALSE]
    /\ MountLoginView
    /\ UNCHANGED <<opml, href, call, outcome, dbVars, appVars>>

LoginViewShown ==
    appContent.mounted /\ ~ appContent.isLoading /\ ~ appContent.isAuthenticated

\* What the user types: the email, the password and the rest of the form.
TypedValues(field) ==
    CASE field = "email" -> Emails \cup {"alice"}
      [] field \in {"password", "confirmPassword"} -> Passwords \cup {"abc"}
      [] OTHER -> {"Alice"}

HandleInputChange ==
    \E field \in FormFields :
      \E value \in TypedValues(field) \cup {""} :
        /\ LoginViewShown /\ loginView.pc = "form"
        /\ loginView.formData[field] # value
        /\ loginView' = [loginView EXCEPT !.formData[field] = value,
                                          !.errors = @ \ {field}]
        /\ UNCHANGED <<appContent, opml, dbVars, authVars, appVars>>

ToggleMode ==
    /\ LoginViewShown /\ loginView.pc = "form"
    /\ loginView' = [NoLoginView EXCEPT !.isLoginMode = ~ loginView.isLoginMode]
    /\ UNCHANGED <<appContent, opml, dbVars, authVars, appVars>>

\* /\S+@\S+\.\S+/ and length >= 6 on the strings that can be typed.
MatchesEmail(value) == value \in Emails
LongEnough(value) == value \in Passwords

\* validateForm(): the fields it reports.
validateForm(view) ==
    LET fd == view.formData
    IN {f \in {"email"} : fd.email = "" \/ ~ MatchesEmail(fd.email)}
       \cup {f \in {"password"} : fd.password = "" \/ ~ LongEnough(fd.password)}
       \cup IF view.isLoginMode THEN {}
            ELSE {f \in {"username", "firstName", "lastName"} : fd[f] = ""}
                 \cup {f \in {"confirmPassword"} :
                          fd.confirmPassword = ""
                          \/ fd.password # fd.confirmPassword}

\* new FormData() and its append(name, value); reading a property it does not
\* have gives undefined.
NewFormData == [entries |-> << >>]
FormDataAppend(fd, name, value) ==
    [fd EXCEPT !.entries = @ \o <<name, String(value)>>]
GetProperty(object, key) ==
    IF key \in DOMAIN object THEN object[key] ELSE Absent

\* The body handleSubmit builds in login mode: inside the branch `formData`
\* names the FormData just created, not the form state.
LoginBody(state) ==
    LET formData == NewFormData
    IN FormDataAppend(FormDataAppend(formData, "username",
                                     GetProperty(formData, "email")),
                      "password", GetProperty(formData, "password")).entries

RegisterBody(state) ==
    <<"email", state.email, "mot_de_passe", state.password,
      "nom_utilisateur", state.username, "prenom", state.firstName,
      "nom", state.lastName>>

\* handleSubmit up to its fetch.
HandleSubmit ==
    /\ LoginViewShown /\ loginView.pc = "form"
    /\ IF validateForm(loginView) # {}
         THEN /\ loginView' = [loginView EXCEPT !.errors = validateForm(loginView)]
              /\ UNCHANGED <<request, response>>
         ELSE /\ loginView' = [loginView EXCEPT !.errors = {}, !.pc = "fetch"]
              /\ request' =
                   IF loginView.isLoginMode
                     THEN [url |-> "/api/users/login", authorization |-> NoHeader,
                           body |-> LoginBody(loginView.formData)]
                     ELSE [url |-> "/api/users/register",
                           authorization |-> NoHeader,
                           body |-> RegisterBody(loginView.formData)]
              /\ response' = NoResponse
    /\ UNCHANGED <<appContent, opml, localStorage, href, call, outcome, dbVars,
                   appVars>>

\* An ok answer of /api/users/register is the user created, without tokens.
RegisterResponses ==
    {[status |-> 201, data |-> NoData]}
    \cup {[status |-> 400, data |-> d] : d \in ErrorBodies}

\* handleSubmit from the response on.
HandleSubmitResponse ==
    /\ appContent.mounted /\ loginView.pc = "fetch"
    /\ \E resp \in IF loginView.isLoginMode THEN TokenResponses
                   ELSE RegisterResponses :
          /\ response' = resp
          /\ IF IsOk(resp.status)
               THEN /\ localStorage' =
                         setItem(setItem(setItem(localStorage,
                             "token", String(resp.data.access_token)),
                             "refresh_token", String(resp.data.refresh_token)),
                             "user", String(JSONstringifyOrUndefined(resp.data.user)))
                    /\ appContent' = handleLogin(appContent, resp.data.user)
                    /\ loginView' = [NoLoginView EXCEPT
                                        !.oauthPc = loginView.oauthPc]
               ELSE \* data.detail names the email, the password or neither
                    /\ \E field \in {"email", "password", "general"} :
                          loginView' = [loginView EXCEPT !.pc = "form",
                                                         !.errors = {field}]
                    /\ UNCHANGED <<localStorage, appContent>>
    /\ UNCHANGED <<opml, href, call, request, outcome, dbVars, appVars>>

\* The browser loads the page at one of its URLs: a first visit, or the
\* provider sending the user back.
PageLoad ==
    \E h \in DOMAIN LocationSearch :
        /\ href' = h
        /\ appContent' = NoAppContent
        /\ loginView' = NoLoginView
        /\ UNCHANGED <<opml, localStorage, call, request, response, outcome,
                       dbVars, appVars>>

\* initiateOAuth(provider): the page leaves for the provider's authUrl.
InitiateOAuth ==
    \E provider \in DOMAIN OAUTH_CONFIG :
        /\ LoginViewShown /\ loginView.oauthPc = "none"
        /\ loginView' = [loginView EXCEPT !.oauthLoading = provider]
        /\ href' = OAUTH_CONFIG[provider].authUrl
        /\ UNCHANGED <<appContent, opml, localStorage, call, request, response,
                       outcome, dbVars, appVars>>

\* handleOAuthLogin from the response on.
OAuthLoginResponse ==
    /\ appContent.mounted /\ loginView.oauthPc = "fetch"
    /\ \E resp \in TokenResponses :
          /\ response' = resp
          /\ IF IsOk(resp.status)
               THEN /\ localStorage' =
                         setItem(setItem(setItem(localStorage,
                             "token", String(resp.data.access_token)),
                             "refresh_token", String(resp.data.refresh_token)),
                             "user", String(JSONstringifyOrUndefined(resp.data.user)))
                    /\ appContent' = handleLogin(appContent, resp.data.user)
                    /\ loginView' = NoLoginView
               ELSE /\ loginView' = [loginView EXCEPT !.errors = {"oauth"},
                                                      !.oauthLoading = NoItem,
                                                      !.oauthPc = "none"]
                    /\ UNCHANGED <<localStorage, appContent>>
    /\ UNCHANGED <<opml, href, call, request, outcome, dbVars, appVars>>

-----------------------------------------------------------------------------
(* Specifications *)

InitDb ==
    /\ db = EmptyDb
    /\ removedFrom = {}
    /\ lastStmt = NoStmt

InitApp ==
    /\ mounted = FALSE
    /\ collections = << >>
    /\ activeCollection = initialCollections[1]
    /\ now = 1000
    /\ unmounted = NotUnmounted
    /\ events = 0

InitUi ==
    /\ opml = NoOpml
    /\ loginView = NoLoginView
    /\ appContent = NoAppContent

Init == InitDb /\ InitAuth /\ InitApp /\ InitUi

\* The whole schema, within the row budget.
Next ==
    \/ InsertUtilisateur
    \/ InsertUtilisateurOAuth
    \/ InsertCollection
    \/ InsertFluxRss
    \/ InsertCategorie
    \/ InsertArticle
    \/ InsertMembreDefaut
    \/ InsertMembreExplicite
    \/ InsertCollectionFlux
    \/ InsertFluxCategorie
    \/ InsertStatut
    \/ UpdateStatut
    \/ InsertCommentaire
    \/ InsertMessage
    \/ InsertJournalExport
    \/ InsertJournalImport
    \/ DeleteUtilisateur
    \/ DeleteUtilisateurOAuth
    \/ DeleteCollection
    \/ DeleteFluxRss
    \/ DeleteCategorie
    \/ DeleteArticle
    \/ DeleteMembre
    \/ DeleteCollectionFlux
    \/ DeleteFluxCategorie
    \/ DeleteStatut
    \/ DeleteCommentaire
    \/ DeleteMessage
    \/ DeleteJournalExport
    \/ DeleteJournalImport

Spec == Init /\ [][Next]_vars

NextMembres ==
    \/ SessionInsertUtilisateur
    \/ SessionInsertCollection
    \/ SessionInsertMembreDefaut
    \/ SessionInsertMembreExplicite
    \/ SessionDeleteUtilisateur
    \/ SessionDeleteCollection
    \/ SessionDeleteMembre

SpecMembres == Init /\ [][NextMembres]_vars

\* The logged session, with the statements that change who owns a collection
\* and which role a member has.
NextProprietaire ==
    \/ SessionInsertUtilisateur
    \/ SessionInsertCollection
    \/ SessionInsertMembreDefaut
    \/ SessionInsertMembreProprietaire
    \/ SessionUpdateProprietaire
    \/ SessionUpdateMembreRole
    \/ SessionDeleteMembre

SpecProprietaire == Init /\ [][NextProprietaire]_vars

NextFil ==
    \/ FilInsertUtilisateur
    \/ FilInsertFluxRss
    \/ FilInsertArticle
    \/ FilInsertCollection
    \/ FilInsertCommentaire
    \/ FilDeleteCommentaire
    \/ FilDeleteArticle
    \/ FilDeleteUtilisateur

SpecFil == Init /\ [][NextFil]_vars

\* The AuthService calls against a server that may answer anything.
NextAuth ==
    \/ Login
    \/ LoginResponse
    \/ LoginWithOAuth
    \/ LoginWithOAuthResponse
    \/ Logout
    \/ RefreshToken
    \/ RefreshTokenResponse
    \/ ApiRequest
    \/ ApiRequestResponse
    \/ ApiRequestRefreshed
    \/ GetCurrentUser
    \/ GetCurrentUserResponse
    \/ GetCurrentUserRefreshed

SpecAuth == Init /\ [][NextAuth]_vars

\* The AuthService calls as the code runs them, without a count of the
\* requests a call has sent.
NextAuthSansCompte ==
    \/ Login
    \/ LoginResponse
    \/ LoginWithOAuth
    \/ LoginWithOAuthResponse
    \/ Logout
    \/ RefreshToken
    \/ RefreshTokenResponse
    \/ ApiRequest
    \/ ApiRequestResponseSansCompte
    \/ ApiRequestRefreshedSansCompte
    \/ GetCurrentUser
    \/ GetCurrentUserResponseSansCompte
    \/ GetCurrentUserRefreshedSansCompte

\* Each HTTP request is answered: a call that awaits a response gets one.
RequestsAnswered ==
    /\ WF_vars(LoginResponse)
    /\ WF_vars(LoginWithOAuthResponse)
    /\ WF_vars(RefreshTokenResponse)
    /\ WF_vars(ApiRequestResponseSansCompte)
    /\ WF_vars(ApiRequestRefreshedSansCompte)
    /\ WF_vars(GetCurrentUserResponseSansCompte)
    /\ WF_vars(GetCurrentUserRefreshedSansCompte)

SpecAuthAnswered == Init /\ [][NextAuthSansCompte]_vars /\ RequestsAnswered

\* AppProvider mounted and unmounted, and the user's events in between.
NextApp ==
    \/ Mount
    \/ Unmount
    \/ AddCollection
    \/ DeleteCollectionLocale
    \/ SelectCollection
    \/ CollectionFormSubmit
    \/ HandleAddFeed
    \/ HandleToggleFeedStatus
    \/ HandleInvite
    \/ HandlePermissionChange

SpecApp == Init /\ [][NextApp]_vars

\* Feeds exported to an OPML file, and the file imported again.
NextOPML ==
    \/ HandleExport
    \/ HandleFileSelect

SpecOPML == Init /\ [][NextOPML]_vars

\* The page, its login form and its header.
NextLogin ==
    \/ AppContentMount
    \/ PageReload
    \/ HandleInputChange
    \/ ToggleMode
    \/ HandleSubmit
    \/ HandleSubmitResponse
    \/ HeaderHandleLogout

SpecLogin == Init /\ [][NextLogin]_vars

\* The page loaded at its URLs, the OAuth callback and the header.
NextOAuth ==
    \/ PageLoad
    \/ AppContentMount
    \/ InitiateOAuth
    \/ OAuthLoginResponse
    \/ HeaderHandleLogout

SpecOAuth == Init /\ [][NextOAuth]_vars

-----------------------------------------------------------------------------
(* Claims on the schema *)

HasAllRights(m) ==
    /\ m.peut_ajouter_flux /\ m.peut_lire /\ m.peut_commenter
    /\ m.peut_modifier /\ m.peut_supprimer

Membres(c, u) ==
    {m \in db.membre_collection : m.collection_id = c /\ m.utilisateur_id = u}

StmtIs(s, op, table, sqlstate) ==
    s.op = op /\ s.table = table /\ s.sqlstate = sqlstate

\* C1: whenever a row is inserted into collection, the same statement also
\* creates the membre_collection row of (its id, its proprietaire_id) with role
\* 'proprietaire' and all five rights TRUE: right after an INSERT INTO
\* collection that succeeded, the collection is there with that row.
C1_ProprietaireMembreALaCreation ==
    StmtIs(lastStmt, "INSERT", "collection", "ok") =>
        /\ \E c \in db.collection :
              /\ c.id = lastStmt.given.id
              /\ c.proprietaire_id = lastStmt.given.proprietaire_id
        /\ \E m \in Membres(lastStmt.given.id, lastStmt.given.proprietaire_id) :
              m.role = "proprietaire" /\ HasAllRights(m)

C1_Witness ==
    /\ StmtIs(lastStmt, "INSERT", "collection", "ok")
    /\ Membres(lastStmt.given.id, lastStmt.given.proprietaire_id) # {}
    /\ Cardinality(db.collection) = 2

RefersTo(rows, col, parent) == \A r \in rows : r[col] \in Ids(parent)

\* C2: after any sequence of inserts and deletes no row references a missing
\* parent; so a DELETE of a utilisateur has removed, in the same statement,
\* every row that referred to them and transitively every row that referred
\* to a removed row.
C2_AucuneReferenceOrpheline ==
    /\ RefersTo(db.utilisateur_oauth, "utilisateur_id", db.utilisateur)
    /\ RefersTo(db.collection, "proprietaire_id", db.utilisateur)
    /\ RefersTo(db.categorie, "utilisateur_id", db.utilisateur)
    /\ RefersTo(db.article, "flux_id", db.flux_rss)
    /\ RefersTo(db.membre_collection, "collection_id", db.collection)
    /\ RefersTo(db.membre_collection, "utilisateur_id", db.utilisateur)
    /\ RefersTo(db.collection_flux, "collection_id", db.collection)
    /\ RefersTo(db.collection_flux, "flux_id", db.flux_rss)
    /\ RefersTo(db.collection_flux, "ajoute_par_utilisateur_id", db.utilisateur)
    /\ RefersTo(db.flux_categorie, "flux_id", db.flux_rss)
    /\ RefersTo(db.flux_categorie, "categorie_id", db.categorie)
    /\ RefersTo(db.statut_utilisateur_article, "utilisateur_id", db.utilisateur)
    /\ RefersTo(db.statut_utilisateur_article, "article_id", db.article)
    /\ RefersTo(db.commentaire_article, "article_id", db.article)
    /\ RefersTo(db.commentaire_article, "utilisateur_id", db.utilisateur)
    /\ RefersTo(db.commentaire_article, "collection_id", db.collection)
    /\ \A k \in db.commentaire_article :
          k.commentaire_parent_id # NULL =>
              k.commentaire_parent_id \in Ids(db.commentaire_article)
    /\ RefersTo(db.message_collection, "collection_id", db.collection)
    /\ RefersTo(db.message_collection, "utilisateur_id", db.utilisateur)
    /\ RefersTo(db.journal_export, "utilisateur_id", db.utilisateur)
    /\ RefersTo(db.journal_import, "utilisateur_id", db.utilisateur)

\* A DELETE of a utilisateur has just removed a collection they owned and,
\* through it, member and comment rows, while another user remains.
C2_Witness ==
    /\ {"utilisateur", "collection", "membre_collection",
        "commentaire_article"} \subseteq removedFrom
    /\ db.utilisateur # {}

\* C4: at most one membre_collection row per (collection_id, utilisateur_id);
\* an INSERT of a user who is already a member of the collection, the owner
\* after the trigger ran included, is rejected and leaves every table
\* unchanged.
C4_MembreUnique ==
    /\ [](\A m1, m2 \in db.membre_collection :
            (m1.collection_id = m2.collection_id
                /\ m1.utilisateur_id = m2.utilisateur_id) => m1 = m2)
    /\ [][(/\ lastStmt'.op = "INSERT"
           /\ lastStmt'.table = "membre_collection"
           /\ Membres(lastStmt'.given.collection_id,
                      lastStmt'.given.utilisateur_id) # {})
          => (lastStmt'.sqlstate = "unique_violation" /\ db' = db)]_vars

\* The owner was added again, after the trigger had made them a member, and
\* the INSERT was rejected.
C4_Witness ==
    /\ StmtIs(lastStmt, "INSERT", "membre_collection", "unique_violation")
    /\ \E c \in db.collection :
          /\ c.id = lastStmt.given.collection_id
          /\ c.proprietaire_id = lastStmt.given.utilisateur_id
          /\ \E m \in Membres(c.id, c.proprietaire_id) : m.role = "proprietaire"

GivesOnlyKey(s) == DOMAIN s.given = {"collection_id", "utilisateur_id"}

\* C5: a member added without explicit role or flags gets role 'membre' with
\* peut_ajouter_flux, peut_lire and peut_commenter TRUE and peut_modifier and
\* peut_supprimer FALSE; of the rows made by such an INSERT and by the
\* trigger, only the trigger's owner row starts with edit and delete rights.
C5_DroitsParDefaut ==
    /\ (StmtIs(lastStmt, "INSERT", "membre_collection", "ok")
            /\ GivesOnlyKey(lastStmt)) =>
          /\ Membres(lastStmt.given.collection_id,
                     lastStmt.given.utilisateur_id) # {}
          /\ \A m \in Membres(lastStmt.given.collection_id,
                              lastStmt.given.utilisateur_id) :
                /\ m.role = "membre"
                /\ m.peut_ajouter_flux /\ m.peut_lire /\ m.peut_commenter
                /\ ~ m.peut_modifier /\ ~ m.peut_supprimer
    /\ StmtIs(lastStmt, "INSERT", "collection", "ok") =>
          \A m \in Membres(lastStmt.given.id, lastStmt.given.proprietaire_id) :
              m.peut_modifier /\ m.peut_supprimer

\* A second user has just been added with the defaults to a collection whose
\* owner row the trigger made.
C5_Witness ==
    /\ StmtIs(lastStmt, "INSERT", "membre_collection", "ok")
    /\ GivesOnlyKey(lastStmt)
    /\ \E c \in db.collection :
          /\ c.id = lastStmt.given.collection_id
          /\ c.proprietaire_id # lastStmt.given.utilisateur_id
          /\ \E m \in Membres(c.id, c.proprietaire_id) :
                m.role = "proprietaire" /\ HasAllRights(m)

OfCollection(rows, c) == {r \in rows : r.collection_id = c.id}

\* C3: deleting a collection removes exactly its membre_collection,
\* collection_flux, commentaire_article and message_collection rows, and leaves
\* every utilisateur, flux_rss, article, categorie and
\* statut_utilisateur_article row, and every row of other collections,
\* unchanged.
C3_DeleteCollectionExactement ==
    [][\A c \in db.collection :
          (c.id \notin Ids(db'.collection) /\ db'.utilisateur = db.utilisateur) =>
              /\ db'.collection = db.collection \ {c}
              /\ db'.membre_collection =
                    db.membre_collection \ OfCollection(db.membre_collection, c)
              /\ db'.collection_flux =
                    db.collection_flux \ OfCollection(db.collection_flux, c)
              /\ db'.commentaire_article =
                    db.commentaire_article \ OfCollection(db.commentaire_article, c)
              /\ db'.message_collection =
                    db.message_collection \ OfCollection(db.message_collection, c)
              /\ db'.utilisateur = db.utilisateur
              /\ db'.flux_rss = db.flux_rss
              /\ db'.article = db.article
              /\ db'.categorie = db.categorie
              /\ db'.statut_utilisateur_article = db.statut_utilisateur_article
      ]_vars

Statuts(u, a) ==
    {s \in db.statut_utilisateur_article :
        s.utilisateur_id = u /\ s.article_id = a}

OnlyStatutChanged ==
    \A t \in Tables \ {"statut_utilisateur_article"} : db'[t] = db[t]

\* What vue_articles_utilisateur shows user u about article a: the rows of the
\* article that are the user's own or no user's.
VueDe(u, a) ==
    {v \in vue_articles_utilisateur(db) :
        v.id = a /\ v.utilisateur_id \in {u, NULL}}

\* C6: at most one statut_utilisateur_article row per (utilisateur_id,
\* article_id); an article with no status row for a user counts, in
\* vue_articles_utilisateur, as unread and not favorite for that user.
C6_StatutParUtilisateur ==
    \A u \in Ids(db.utilisateur), a \in Ids(db.article) :
        /\ Cardinality(Statuts(u, a)) <= 1
        /\ Statuts(u, a) = {} =>
              /\ VueDe(u, a) # {}
              /\ \A v \in VueDe(u, a) : ~ v.est_lu /\ ~ v.est_favori

\* The two parts of C6 that hold: one row per pair, and a statement on
\* statut_utilisateur_article changes the status of one pair only.
C6_TableSeule ==
    /\ [](\A u \in UserIds, a \in ArticleIds : Cardinality(Statuts(u, a)) <= 1)
    /\ [][OnlyStatutChanged =>
            \E u \in UserIds, a \in ArticleIds :
                \A v \in UserIds, b \in ArticleIds :
                    <<v, b>> # <<u, a>> => Statuts(v, b)' = Statuts(v, b)]_vars

\* A step in which the call in flight gets the response it awaits at `pc`.
Resumes(fn, pc) == call.fn = fn /\ call.pc = pc /\ call' # call

StoredKeys(ls) == DOMAIN ls \cap {"token", "refresh_token", "user"}

\* C7: when apiRequest was called with an access token stored and the server
\* answers 401, refreshToken is called; if the refresh succeeds, the same
\* request is sent again with the access token just stored in its
\* Authorization header; what the caller gets back is the response of the
\* request sent last, which is never a 401.
C7_RefreshPuisRenvoi ==
    [][ /\ (Resumes("apiRequest", "fetch") /\ response'.status = 401
              /\ Truthy(call.token))
           => \/ /\ call'.fn = "apiRequest" /\ call'.pc = "refresh"
                 /\ request' = RefreshRequest(localStorage)
              \/ /\ ~ Truthy(getItem(localStorage, "refresh_token"))
                 /\ outcome' = Threw("apiRequest", "Pas de refresh token")
        /\ (Resumes("apiRequest", "refresh") /\ IsOk(response'.status))
           => /\ call'.fn = "apiRequest" /\ call'.pc = "fetch"
              /\ call'.attempt = call.attempt + 1
              /\ request'.url = call.url
              /\ getItem(localStorage', "token") = response'.data.access_token
              /\ request'.authorization = Bearer(response'.data.access_token)
        /\ (Resumes("apiRequest", "fetch") /\ call.attempt > 1
              /\ call' = Idle /\ outcome'.kind = "returned")
           => /\ outcome'.attempt = call.attempt
              /\ outcome'.status = response'.status
              /\ outcome'.status # 401
      ]_vars

\* A request that was answered 401, then sent again with the refreshed token,
\* has given its caller the second answer.
C7_Witness ==
    /\ call = Idle
    /\ outcome = Returned("apiRequest", "response", 200, 2)
    /\ request.url \in ApiUrls
    /\ request.authorization = Bearer(getToken(localStorage))

\* C8: when the refresh endpoint answers with a non-ok status, the three keys
\* are removed from localStorage, 'Session expirée' is thrown, isAuthenticated()
\* is false afterwards and the request that failed is not sent again.
C8_RefreshRefuse ==
    [][ (call.pc = "refresh" /\ call' # call /\ ~ IsOk(response'.status))
        => /\ StoredKeys(localStorage') = {}
           /\ outcome' = Threw(call.fn, "Session expirée")
           /\ ~ isAuthenticated(localStorage')
           /\ call' = Idle
           /\ request' = request
      ]_vars

\* An apiRequest whose refresh was refused has thrown, and the session is gone.
C8_Witness ==
    /\ call = Idle
    /\ outcome = Threw("apiRequest", "Session expirée")
    /\ request.url = "/api/users/refresh-token"
    /\ ~ IsOk(response.status)
    /\ StoredKeys(localStorage) = {}

\* C9: login stores the access token, the refresh token and the user of an ok
\* response, after which isAuthenticated() is true; on a non-ok response it
\* throws and leaves localStorage exactly as it was.
C9_LoginSession ==
    [][ Resumes("login", "fetch")
        => IF IsOk(response'.status)
             THEN /\ getItem(localStorage', "token") = response'.data.access_token
                  /\ getItem(localStorage', "refresh_token")
                       = response'.data.refresh_token
                  /\ getStoredUser(localStorage') = response'.data.user
                  /\ isAuthenticated(localStorage')
                  /\ outcome'.kind = "returned"
             ELSE /\ outcome'.fn = "login" /\ outcome'.kind = "threw"
                  /\ localStorage' = localStorage
      ]_vars

\* A login was refused while a session was stored, and the session is still
\* there.
C9_Witness ==
    /\ call = Idle
    /\ outcome.fn = "login" /\ outcome.kind = "threw"
    /\ ~ IsOk(response.status)
    /\ StoredKeys(localStorage) = {"token", "refresh_token", "user"}

\* C10: after logout() none of 'token', 'refresh_token' and 'user' is stored,
\* so isAuthenticated() is false, getStoredUser() is null and getAuthHeaders()
\* is empty; a second logout() changes nothing more.
C10_Logout ==
    [][ (call' = call /\ outcome'.fn = "logout")
        => /\ localStorage' = logout(localStorage)
           /\ StoredKeys(localStorage') = {}
           /\ ~ isAuthenticated(localStorage')
           /\ getStoredUser(localStorage') = NoItem
           /\ getAuthHeaders(localStorage') = {}
           /\ logout(localStorage') = localStorage'
      ]_authVars

\* logout() has run on a session that a login had stored.
C10_Witness ==
    /\ outcome.fn = "logout"
    /\ call = Idle
    /\ request.url = "/api/users/login" /\ IsOk(response.status)
    /\ StoredKeys(localStorage) = {}
    /\ href = "/login"

\* C11: removing a user or a feed is a soft delete: the row stays, marked
\* inactive through est_actif, and no row of another table is removed.
C11_SuppressionLogique ==
    [][ \A t \in {"utilisateur", "flux_rss"} :
          \A r \in db[t] :
             r \notin db'[t]
             => /\ [r EXCEPT !.est_actif = FALSE] \in db'[t]
                /\ \A x \in Tables \ {t} : db[x] \subseteq db'[x]
      ]_vars

-----------------------------------------------------------------------------
(* Claims on the React application *)

\* C12: the collections are persisted in localStorage: when AppProvider is
\* mounted again after an unmount, whatever addCollection, updateCollection,
\* deleteCollection, addFeedToCollection, addMemberToCollection and
\* updateMemberPermissions did before, its collections state is the one it
\* had just before the unmount.
C12_CollectionsPersistees ==
    [][ (~ mounted /\ mounted' /\ unmounted.mounted)
        => collections' = unmounted.collections ]_vars

\* AppProvider is mounted again with collections that the user's events had
\* changed before the unmount.
C12_Witness ==
    /\ mounted
    /\ unmounted.mounted
    /\ events = MaxEvents
    /\ collections = unmounted.collections
    /\ collections # initialCollections
    /\ Len(collections) # Len(initialCollections)

SeqToSet(seq) == {seq[i] : i \in DOMAIN seq}

\* C13: OPML export and import are inverse on feed lists: the text generateOPML
\* writes for a list of feeds (includeCategories on), read back by
\* parseOPMLFile, gives the same set of feeds, each with the same title, url
\* and category.
C13_OPMLAllerRetour ==
    opml.phase = "parsed" => SeqToSet(opml.parsedFeeds) = SeqToSet(opml.feeds)

\* The part of C13 that holds: feeds whose title, url and category hold no
\* `&`, `<` or `"` are read back as they were exported.
C13_SansCaracteresXml ==
    (opml.phase = "parsed"
       /\ \A i \in DOMAIN opml.feeds :
             \A s \in {opml.feeds[i].title, opml.feeds[i].url,
                       opml.feeds[i].category} :
                ~ \E c \in {"&", "<", "\""} : Includes(s, c))
    => SeqToSet(opml.parsedFeeds) = SeqToSet(opml.feeds)

-----------------------------------------------------------------------------
(* C14 *)

\* C14: in login mode the request handleSubmit sends goes to /api/users/login
\* and its form body carries the email typed as 'username' and the password
\* typed as 'password'.
C14_CorpsDeConnexion ==
    [][ (loginView.isLoginMode /\ loginView.pc = "form" /\ loginView'.pc = "fetch")
        => /\ request'.url = "/api/users/login"
           /\ request'.body = <<"username", loginView.formData.email,
                                "password", loginView.formData.password>> ]_vars

\* What is sent instead: the text "undefined" in both fields.
C14_CorpsIndefini ==
    [][ (loginView.isLoginMode /\ loginView.pc = "form" /\ loginView'.pc = "fetch")
        => /\ request'.url = "/api/users/login"
           /\ request'.body = <<"username", "undefined",
                                "password", "undefined">> ]_vars

-----------------------------------------------------------------------------
(* C19 *)

\* A step of App's handleLogout, reached through the Header.
LogoutThroughHeader ==
    /\ appContent.mounted /\ appContent'.mounted
    /\ appContent.isAuthenticated /\ ~ appContent'.isAuthenticated

\* C19: after a logout through the Header, localStorage holds none of 'token',
\* 'refresh_token' and 'user', authService.isAuthenticated() is false, and it
\* agrees with App's isAuthenticated flag.
C19_DeconnexionParHeader ==
    [][ LogoutThroughHeader
        => /\ StoredKeys(localStorage') = {}
           /\ ~ isAuthenticated(localStorage')
           /\ appContent'.isAuthenticated = isAuthenticated(localStorage') ]_vars

\* What the logout through the Header does remove: the stored user only.
C19_SeulUserRetire ==
    [][ LogoutThroughHeader
        => localStorage' = removeItem(localStorage, "user") ]_vars

-----------------------------------------------------------------------------
(* C15 *)

\* The comments of `rows` that answer, directly or through other answers,
\* a comment of `roots`.
RECURSIVE Replies(_, _)
Replies(rows, roots) ==
    LET direct == {k \in rows \ roots :
                      \E c \in roots : k.commentaire_parent_id = c.id}
    IN IF direct = {} THEN {} ELSE direct \cup Replies(rows \ roots, direct)

\* C15: a statement that removes a comment removes all of its direct and
\* indirect replies, and in every state each comment with a non-null
\* commentaire_parent_id has an existing parent comment.
C15_ReponsesSupprimees ==
    /\ [](\A k \in db.commentaire_article :
            k.commentaire_parent_id # NULL
            => \E c \in db.commentaire_article : c.id = k.commentaire_parent_id)
    /\ [][\A c \in db.commentaire_article :
            c \notin db'.commentaire_article
            => Replies(db.commentaire_article, {c}) \cap db'.commentaire_article = {}
         ]_vars

\* A DELETE of one comment has just removed it, a reply to it and a reply to
\* that reply.
C15_Witness ==
    /\ StmtIs(lastStmt, "DELETE", "commentaire_article", "ok")
    /\ \E b, c \in lastStmt.removed.commentaire_article :
          /\ lastStmt.given \in lastStmt.removed.commentaire_article
          /\ b.commentaire_parent_id = lastStmt.given.id
          /\ c.commentaire_parent_id = b.id
          /\ Cardinality({lastStmt.given.id, b.id, c.id}) = 3

-----------------------------------------------------------------------------
(* C16 *)

\* C16: in every state each collection has a membre_collection row of its
\* current proprietaire_id with role 'proprietaire', and no other member of
\* the collection has role 'proprietaire'.
C16_UnSeulProprietaire ==
    \A c \in db.collection :
        /\ \E m \in Membres(c.id, c.proprietaire_id) : m.role = "proprietaire"
        /\ \A m \in db.membre_collection :
              (m.collection_id = c.id /\ m.role = "proprietaire")
              => m.utilisateur_id = c.proprietaire_id

\* What does hold: a statement other than an INSERT INTO collection never
\* adds or changes a membre_collection row on its own.
C16_TriggerSurInsertSeulement ==
    [][ (lastStmt'.table = "collection" /\ lastStmt'.op # "INSERT")
        => db'.membre_collection \subseteq db.membre_collection ]_vars

-----------------------------------------------------------------------------
(* C17 *)

\* C17: every call of apiRequest and of getCurrentUser eventually returns or
\* throws, whenever each HTTP request it sends is answered.
C17_AppelTermine ==
    (call.fn \in {"apiRequest", "getCurrentUser"}) ~> (call = Idle)

\* What does hold: a call that is not answered 401 after a refresh ends, so
\* login, loginWithOAuth and refreshToken, which send one request, always end.
C17_AppelsSimplesTerminent ==
    (call.fn \in {"login", "loginWithOAuth", "refreshToken"}) ~> (call = Idle)

-----------------------------------------------------------------------------
(* C18 *)

TokenKeys(ls) == DOMAIN ls \cap {"token", "refresh_token"}

\* C18: once logout() has run, no access token and no refresh token is stored
\* until the next successful login or loginWithOAuth: from a state without
\* tokens, logout() having run, the only step that stores one is the ok
\* response of login or loginWithOAuth, whatever call was in flight.
C18_PasDeJetonApresLogout ==
    [][ (outcome.fn = "logout" /\ TokenKeys(localStorage) = {}
         /\ TokenKeys(localStorage') # {})
        => /\ call.fn \in {"login", "loginWithOAuth"}
           /\ call' = Idle
           /\ IsOk(response'.status) ]_vars

\* What does hold: with no call in flight when logout() runs, the tokens stay
\* absent until a login or loginWithOAuth is answered ok.
C18_SansAppelEnCours ==
    [][ (outcome.fn = "logout" /\ TokenKeys(localStorage) = {}
         /\ TokenKeys(localStorage') # {}
         /\ call.fn \notin {"apiRequest", "getCurrentUser", "refreshToken"})
        => /\ call.fn \in {"login", "loginWithOAuth"}
           /\ call' = Idle
           /\ IsOk(response'.status) ]_vars

-----------------------------------------------------------------------------
(* C20 *)

\* The members of `col` with role 'creator', as they are stored.
Creators(col) ==
    {col.members[i] : i \in {j \in DOMAIN col.members :
                                col.members[j].role = "creator"}}

\* C20: in every state the member with role 'creator' of each collection holds
\* read, add, edit and comment, and no step (handlePermissionChange on that
\* member included) updates that member of a collection that stays.
C20_CreateurGardeSesDroits ==
    /\ [](\A i \in DOMAIN collections :
            /\ Creators(collections[i]) # {}
            /\ \A m \in Creators(collections[i]) :
                  SeqToSet(AllPermissions) \subseteq SeqToSet(m.permissions))
    /\ [][\A i \in DOMAIN collections, j \in DOMAIN collections' :
            (mounted /\ mounted' /\ collections[i].id = collections'[j].id)
            => Creators(collections'[j]) = Creators(collections[i])]_vars

\* A member was invited and the permissions of a member who is not the creator
\* were changed, next to a creator who still holds the four permissions.
C20_Witness ==
    /\ mounted /\ events = MaxEvents
    /\ \E i \in DOMAIN collections :
          /\ collections[i].id = initialCollections[1].id
          /\ Len(collections[i].members) > Len(initialCollections[1].members)
          /\ collections[i].members[2].permissions
                # initialCollections[1].members[2].permissions
          /\ Creators(collections[i]) = {Vous}

-----------------------------------------------------------------------------
(* C21 *)

\* A step in which LoginView is rendered for the first time.
LoginViewMounts == ~ LoginViewShown /\ LoginViewShown'

\* A step in which the exchange request of handleOAuthLogin is answered.
OAuthAnswered ==
    loginView.oauthPc = "fetch" /\ loginView'.oauthPc # "fetch" /\ appContent'.mounted

\* A step that stores something under a key of localStorage.
Stores == \E k \in DOMAIN localStorage' :
              localStorage'[k] # getItem(localStorage, k)

\* C21: when LoginView mounts with 'code' and 'state' in the query and state
\* names a configured provider, one request goes to /api/users/oauth2/login
\* with provider = state, token = code and that provider's redirect URI; on an
\* ok response token, refresh_token and user are stored and onLogin is called,
\* otherwise errors.oauth is set and nothing is stored, and nothing is stored
\* by any other step; whenever no exchange is pending on the page, also after
\* a state that names no configured provider, oauthLoading is null.
C21_RetourOAuth ==
    /\ [][ LoginViewMounts =>
           LET urlParams == LocationSearch[href]
           IN (Truthy(urlParams.code) /\ Truthy(urlParams.state)
               /\ urlParams.state \in {"google", "microsoft", "github"})
              => /\ loginView'.oauthPc = "fetch"
                 /\ response' = NoResponse
                 /\ request' =
                      [url |-> "/api/users/oauth2/login",
                       authorization |-> NoHeader,
                       body |-> <<"provider", urlParams.state,
                                  "token", urlParams.code,
                                  "redirect_uri",
                                  OAUTH_CONFIG[urlParams.state].redirectUri>>] ]_vars
    /\ [][ OAuthAnswered =>
           IF IsOk(response'.status)
             THEN /\ StoredKeys(localStorage') = {"token", "refresh_token", "user"}
                  /\ localStorage'.token = response'.data.access_token
                  /\ localStorage'.refresh_token = response'.data.refresh_token
                  /\ localStorage'.user = JSONstringify(response'.data.user)
                  /\ appContent'.isAuthenticated
                  /\ appContent'.user = response'.data.user
             ELSE /\ "oauth" \in loginView'.errors
                  /\ localStorage' = localStorage
                  /\ appContent' = appContent ]_vars
    /\ [][ Stores => (OAuthAnswered /\ IsOk(response'.status)) ]_vars
    /\ []((LoginViewShown /\ loginView.oauthPc = "none"
           /\ href \in DOMAIN LocationSearch)
          => loginView.oauthLoading = NoItem)

\* The callback of github was answered ok: the session is stored and open.
C21_Witness ==
    /\ href = "/login?code=code1&state=github"
    /\ request.body = <<"provider", "github", "token", "code1",
                        "redirect_uri", "/auth/callback/github">>
    /\ IsOk(response.status)
    /\ StoredKeys(localStorage) = {"token", "refresh_token", "user"}
    /\ appContent.isAuthenticated

\* The callback named no configured provider: nothing was sent.
C21_WitnessInconnu ==
    /\ href = "/login?code=code1&state=evil"
    /\ LoginViewShown /\ loginView.errors = {"oauth"}
    /\ loginView.oauthLoading = NoItem /\ request = NoRequest

\* The exchange was refused.
C21_WitnessRefus ==
    /\ href = "/login?code=code1&state=google"
    /\ LoginViewShown /\ loginView.errors = {"oauth"}
    /\ ~ IsOk(response.status) /\ response # NoResponse
    /\ StoredKeys(localStorage) = {}

-----------------------------------------------------------------------------
(* C22 *)

\* The main application (Header and views) is rendered.
MainShown ==
    appContent.mounted /\ ~ appContent.isLoading /\ appContent.isAuthenticated

\* The 'user' entry of ls is there and parses as JSON.
UserParses(ls) ==
    "user" \in DOMAIN ls /\ JSONparse(ls.user) # "SyntaxError"

\* C22: when the initial load completes, the main application is shown if
\* and only if localStorage held a 'user' entry that parses as JSON; an entry
\* that does not parse is removed and LoginView is shown; and the main
\* application is rendered only while isAuthenticated is true, which from then
\* on only a login sets and only a logout clears.
C22_ChargementInitial ==
    /\ [][ (~ appContent.mounted /\ appContent'.mounted)
           => /\ ~ appContent'.isLoading
              /\ MainShown' <=> UserParses(localStorage)
              /\ UserParses(localStorage)
                   => /\ appContent'.user = JSONparse(localStorage.user)
                      /\ localStorage' = localStorage
              /\ ("user" \in DOMAIN localStorage /\ ~ UserParses(localStorage))
                   => /\ "user" \notin DOMAIN localStorage'
                      /\ LoginViewShown' ]_vars
    /\ [][ (appContent.mounted /\ appContent'.mounted)
           => /\ (~ MainShown /\ MainShown')
                   => (loginView.pc = "fetch" /\ IsOk(response'.status))
              /\ (MainShown /\ ~ MainShown') => LoginViewShown' ]_vars
    /\ [](MainShown => appContent.isAuthenticated)

\* The page was loaded with a stored 'user' that does not parse: the entry is
\* gone and LoginView is shown, the tokens still stored.
C22_Witness ==
    /\ LoginViewShown
    /\ response.status = 201
    /\ loginView.pc = "form" /\ loginView = NoLoginView
    /\ StoredKeys(localStorage) = {"token", "refresh_token"}
    /\ localStorage.token = "undefined"

=============================================================================
